---- MODULE Spec2Model ----
(***************************************************************************)
(* Model of the storeHelper generators.                                    *)
(*                                                                         *)
(*  - the interactive driver generateStore (src/index.js) with the         *)
(*    composers it calls and the files they write;                         *)
(*  - the session-restore flow fetchUser emitted by generateIndexFile.     *)
(*                                                                         *)
(* Strings are sequences of one-character strings, so that trimming,       *)
(* lower-casing, splitting and pattern matching are computed as the code   *)
(* computes them.                                                          *)
(***************************************************************************)
EXTENDS Integers, Sequences, FiniteSets, TLC

\* ------------------------------------------------------------------ bounds

\* Largest number of comma-separated segments in the collections answer.
MaxCollections == 3

\* Largest number of fetchUser invocations in one store instance.
MaxCalls == 2

\* Largest number of auth-state changes the provider delivers.
MaxAuthChanges == 2

\* ------------------------------------------------------------- characters

LowerSeq ==
  << "a","b","c","d","e","f","g","h","i","j","k","l","m",
     "n","o","p","q","r","s","t","u","v","w","x","y","z" >>

UpperSeq ==
  << "A","B","C","D","E","F","G","H","I","J","K","L","M",
     "N","O","P","Q","R","S","T","U","V","W","X","Y","Z" >>

Digits == { "0","1","2","3","4","5","6","7","8","9" }

Range(s) == { s[i] : i \in DOMAIN s }

IsLower(c) == c \in Range(LowerSeq)
IsUpper(c) == c \in Range(UpperSeq)
IsLetter(c) == IsLower(c) \/ IsUpper(c)
IsDigit(c) == c \in Digits

\* \s of a JavaScript regular expression, and what String.trim removes.
IsSpace(c) == c \in { " ", "\t" }

\* one character of the separator class [-\s_]
IsSep(c) == c = "-" \/ c = "_" \/ IsSpace(c)

IndexIn(seq, c) == CHOOSE i \in DOMAIN seq : seq[i] = c

\* String.prototype.toLowerCase / toUpperCase, one character
LowerChar(c) == IF IsUpper(c) THEN LowerSeq[IndexIn(UpperSeq, c)] ELSE c
UpperChar(c) == IF IsLower(c) THEN UpperSeq[IndexIn(LowerSeq, c)] ELSE c

toLowerCase(s) == [ i \in DOMAIN s |-> LowerChar(s[i]) ]

\* String.prototype.trim
RECURSIVE TrimLeft(_)
TrimLeft(s) ==
  IF s # << >> /\ IsSpace(Head(s)) THEN TrimLeft(Tail(s)) ELSE s

RECURSIVE TrimRight(_)
TrimRight(s) ==
  IF s # << >> /\ IsSpace(s[Len(s)])
  THEN TrimRight(SubSeq(s, 1, Len(s) - 1))
  ELSE s

trim(s) == TrimRight(TrimLeft(s))

\* str.split(/[-\s_]+/): the tokens between maximal runs of separators; a
\* leading or trailing run yields an empty first or last token.
RECURSIVE SplitFrom(_, _, _)
SplitFrom(s, cur, inSep) ==
  IF s = << >> THEN << cur >>
  ELSE IF IsSep(Head(s))
       THEN IF inSep THEN SplitFrom(Tail(s), cur, TRUE)
                     ELSE << cur >> \o SplitFrom(Tail(s), << >>, TRUE)
       ELSE SplitFrom(Tail(s), Append(cur, Head(s)), FALSE)

split(s) == SplitFrom(s, << >>, FALSE)

\* capitalize = str.charAt(0).toUpperCase() + str.slice(1)
capitalize(s) ==
  IF s = << >> THEN << >> ELSE << UpperChar(Head(s)) >> \o Tail(s)

RECURSIVE JoinCamel(_, _)
JoinCamel(toks, i) ==
  IF i > Len(toks) THEN << >>
  ELSE (IF i = 1 THEN toks[i] ELSE capitalize(toks[i])) \o JoinCamel(toks, i + 1)

\* toCamelCase without its toLowerCase()
toCamelCase_KeepCase(s) == JoinCamel(split(trim(s)), 1)

\* toCamelCase = trim, lower-case, split on separators, capitalise every
\* token but the first, join
toCamelCase(s) == JoinCamel(split(toLowerCase(trim(s))), 1)

\* /^[a-z][a-z0-9_-]{0,63}$/i
MaxTail == 63

\* the pattern without its leading letter class: /^[a-z0-9_-]{1,64}$/i
ValidCollectionName_AnyFirst(s) ==
  /\ s # << >>
  /\ Len(s) - 1 <= MaxTail
  /\ \A i \in 1..Len(s) : IsLetter(s[i]) \/ IsDigit(s[i]) \/ s[i] = "_" \/ s[i] = "-"

ValidCollectionName(s) ==
  /\ s # << >>
  /\ IsLetter(s[1])
  /\ Len(s) - 1 <= MaxTail
  /\ \A i \in 2..Len(s) : IsLetter(s[i]) \/ IsDigit(s[i]) \/ s[i] = "_" \/ s[i] = "-"

\* ^[A-Za-z][A-Za-z0-9_-]*$ , the pattern the specification states
MatchesStatedPattern(s) ==
  /\ s # << >>
  /\ IsLetter(s[1])
  /\ \A i \in 2..Len(s) : IsLetter(s[i]) \/ IsDigit(s[i]) \/ s[i] = "_" \/ s[i] = "-"

\* toCamel = str.replace(/-([a-z])/g, (_, c) => c.toUpperCase())
RECURSIVE toCamel(_)
toCamel(s) ==
  IF s = << >> THEN << >>
  ELSE IF Head(s) = "-" /\ Len(s) >= 2 /\ IsLower(s[2])
       THEN << UpperChar(s[2]) >> \o toCamel(SubSeq(s, 3, Len(s)))
       ELSE << Head(s) >> \o toCamel(Tail(s))

\* ------------------------------------------------------- descriptor table

\* One entry per element of actionDescriptors: the key of the forwarded
\* operation and the text exportName puts before and after the suffix.
actionDescriptors ==
  << [key |-> "fetchInitialPage",
      pre |-> <<"f","e","t","c","h","I","n","i","t","i","a","l","P","a","g","e">>,
      post |-> << >>],
     [key |-> "fetchNextPage",
      pre |-> <<"f","e","t","c","h","N","e","x","t","P","a","g","e">>,
      post |-> << >>],
     [key |-> "applyFilters",
      pre |-> <<"a","p","p","l","y">>,
      post |-> <<"F","i","l","t","e","r","s">>],
     [key |-> "changeSorting",
      pre |-> <<"c","h","a","n","g","e">>,
      post |-> <<"S","o","r","t","i","n","g">>],
     [key |-> "add", pre |-> <<"a","d","d">>, post |-> << >>],
     [key |-> "get", pre |-> <<"g","e","t">>, post |-> << >>],
     [key |-> "getWhere",
      pre |-> <<"g","e","t","W","h","e","r","e">>,
      post |-> << >>],
     [key |-> "update", pre |-> <<"u","p","d","a","t","e">>, post |-> << >>],
     [key |-> "search", pre |-> <<"s","e","a","r","c","h">>, post |-> << >>],
     [key |-> "clearSearch",
      pre |-> <<"c","l","e","a","r">>,
      post |-> <<"S","e","a","r","c","h">>],
     [key |-> "remove", pre |-> <<"d","e","l","e","t","e">>, post |-> << >>],
     [key |-> "assignRoles",
      pre |-> <<"a","s","s","i","g","n">>,
      post |-> <<"R","o","l","e","s">>],
     [key |-> "revokeRoles",
      pre |-> <<"r","e","v","o","k","e">>,
      post |-> <<"R","o","l","e","s">>] >>

exportName(d, suffix) == d.pre \o suffix \o d.post

\* --------------------------------------------------------------- the inputs

\* The list in isAuthCollection.
AuthNouns ==
  { <<"u","s","e","r","s">>, <<"u","s","e","r">>,
    <<"c","u","s","t","o","m","e","r">>, <<"c","l","i","e","n","t">>,
    <<"c","l","i","e","n","t","s">>, <<"c","u","s","t","o","m","e","r","s">>,
    <<"s","t","u","d","e","n","t">>, <<"s","t","u","d","e","n","t","s">>,
    <<"a","d","m","i","n","s">>, <<"a","d","m","i","n">>,
    <<"a","c","c","o","u","n","t","s">>, <<"a","c","c","o","u","n","t">> }

isAuthCollection(collectionName) == toLowerCase(collectionName) \in AuthNouns

\* Answers typed at the store-name prompt, before ask trims them.
StoreNameAnswers == { << >>, <<" ">>, <<"s","h","o","p">> }

\* Comma-free segments of the collections answer.
RawSegments ==
  { <<"u","s","e","r","s">>,
    <<"-","U","s","e","r">>,
    <<" ","m","y","_","o","r","d","e","r","s">>,
    <<"9","x">>,
    <<"a",".","b">>,
    <<" ">> }

\* An answer split at its commas: a non-empty sequence of segments.
SegmentLists(S, n) == UNION { [1..k -> S] : k \in 1..n }

CollectionAnswers == SegmentLists(RawSegments, MaxCollections)

RoleAnswers ==
  { << << >> >>,
    << <<"a","d","m","i","n">>, <<" ","e","d","i","t","o","r">>, << >> >> }

LoggingAnswers == { <<"Y">>, <<"n">>, << >> }

\* The instants new Date() can return in generateDocumentation.
Stamps == { 1, 2 }

\* ------------------------------------------------------------------- state

VARIABLES
  pc,                 \* position of generateStore
  storeName,          \* const storeName
  collections,        \* const collections
  authCollections,    \* const authCollections
  roles,              \* let roles
  addActivityLogging, \* let addActivityLogging
  idx,                \* index of collections.forEach
  fs,                 \* the files on disk: a set of [path, content]
  dirs,               \* the directories on disk
  writeLog,           \* the paths written, in the order of the writes
  ran,                \* the composers called, in the order of the calls
  prompts,            \* the questions asked, in order
  error,              \* the error caught by the top-level catch
  console,            \* what was printed
  rlClosed,           \* number of rl.close() calls
  authInitialized,    \* state.authInitialized.value of a generated store
  currentUser,        \* state.currentUser.value
  authUser,           \* the provider's signed-in user (auth.currentUser)
  listeners,          \* onAuthStateChanged subscriptions: listener -> record
  calls,              \* fetchUser invocations: call -> record
  changes,            \* number of sign-ins and sign-outs at the provider
  epoch,              \* number of assignments to state.currentUser.value
  run,                \* which invocation of the generator this is
  first,              \* what the previous invocation read and left on disk
  nm,                 \* two collection names and what a run derives from them
  actionsInstance,    \* let actionsInstance of a generated action module
  factoryCalls,       \* invocations of create<Suffix>Actions
  forwarded,          \* the calls the wrappers passed on, in order
  gen,                \* the answers a generated store was composed from
  storeUser,          \* state.currentUser.value, with its roles
  userDoc,            \* the roles field of the target user's document
  op,                 \* the generated operation in flight
  finished,           \* the operations that have settled, in order
  activity,           \* the addDoc calls on recentActivity, in order
  loading,            \* state.loading.value
  errorField,         \* state.error.value
  flows,              \* the auth flows in flight
  outcome,            \* how the auth flow that settled last ended
  entered,            \* number of auth flows entered
  docs,               \* the documents of the Firestore collection
  page,               \* state[collectionName].value and the queries sent
  displayName,        \* the display name of the provider's user record
  feed,               \* the activity feed: unsubscribeActivity, subscriptions
  http                \* the request a withAuthHandler function is serving

driverVars ==
  << pc, storeName, collections, authCollections, roles, addActivityLogging,
     idx, fs, dirs, writeLog, ran, prompts, error, console, rlClosed >>

sessionVars ==
  << authInitialized, currentUser, authUser, listeners, calls, changes,
     epoch >>

twiceVars == << run, first >>

namingVars == << nm >>

wrapperVars == << actionsInstance, factoryCalls, forwarded >>

utilVars == << gen, storeUser, userDoc, op, finished, activity >>

flagVars == << loading, errorField >>

flowVars == << flows, outcome, entered >>

crudVars == << docs, page >>

nameVars == << displayName >>

feedVars == << feed >>

httpVars == << http >>

laterVars == << crudVars, nameVars, feedVars, httpVars >>

genVars ==
  << twiceVars, namingVars, wrapperVars, utilVars, flagVars, flowVars,
     laterVars >>

vars == << driverVars, sessionVars, genVars >>

\* ----------------------------------------------------------------- helpers

\* array.map(r => r.trim())
MapTrim(s) == [ i \in 1..Len(s) |-> trim(s[i]) ]

NonEmpty(s) == s # << >>

\* array.filter(Boolean) on an array of strings
FilterBoolean(s) == SelectSeq(s, NonEmpty)

NoError == [context |-> "", coll |-> << >>, cause |-> ""]

Err(context, coll, cause) == [context |-> context, coll |-> coll, cause |-> cause]

\* path.join(baseDir, ...): the store directory, the file and, for a file of
\* the actions directory, the collection it is named after
Path(store, file, name) == [store |-> store, file |-> file, name |-> name]

BaseDir(store) == [store |-> store, sub |-> "."]
ActionsDir(store) == [store |-> store, sub |-> "actions"]

\* a write that keeps what the path held before next to the new content
writeFile_Append(files, path, content) ==
  files \cup { [path |-> path, content |-> content] }

\* fs.writeFileSync(filePath, ...): creates or replaces the file
writeFile(files, path, content) ==
  { f \in files : f.path # path } \cup { [path |-> path, content |-> content] }

FileAt(files, path) == { f \in files : f.path = path }

\* what a composer emits; every composed text is a function of these
Content(kind, store, cols, auth, rls, logging, members, stamp) ==
  [kind |-> kind, store |-> store, cols |-> cols, auth |-> auth, rls |-> rls,
   logging |-> logging, members |-> members, stamp |-> stamp]

\* the members emitted by actionDescriptors.forEach for one collection
ActionMembers(collectionName) ==
  [ i \in 1..Len(actionDescriptors) |->
      [key |-> actionDescriptors[i].key,
       name |-> exportName(actionDescriptors[i], capitalize(collectionName))] ]

StateContent(store, cols, auth, logging) ==
  Content("state", store, cols, Len(auth) > 0, << >>, logging, << >>, 0)

UtilContent(auth, rls, logging) ==
  Content("util", << >>, auth, Len(auth) > 0, rls, logging, << >>, 0)

ActionContent(collectionName) ==
  Content("actions", << >>, << collectionName >>, FALSE, << >>, FALSE,
          ActionMembers(collectionName), 0)

\* the auth-flow block is present exactly when authCollections.length > 0;
\* cols then starts with the primary auth collection
IndexContent(store, cols, auth, logging) ==
  Content("index", capitalize(toCamel(store)),
          (IF Len(auth) > 0 THEN << auth[1] >> ELSE << >>) \o cols,
          Len(auth) > 0, << >>, logging, << >>, 0)

LoggerContent ==
  Content("logger", << >>, << >>, FALSE, << >>, FALSE, << >>, 0)

DocContent(store, cols, auth, rls, logging, stamp) ==
  Content("docs", capitalize(store), cols, Len(auth) > 0, rls, logging, << >>, stamp)

\* ----------------------------------------------------------------- Init

TrimCamel(c) == trim(toCamelCase(c))

\* array.map(c => toCamelCase(c).trim())
MapTrimCamel(s) == [ i \in 1..Len(s) |-> TrimCamel(s[i]) ]

\* ask trims the whole answer: the whitespace before its first segment and
\* after its last one goes
trimAnswer(segments) ==
  LET n == Len(segments)
      left == [segments EXCEPT ![1] = TrimLeft(@)]
  IN [left EXCEPT ![n] = TrimRight(@)]

InitDriver ==
  /\ pc = "askStore"
  /\ storeName = << >>
  /\ collections = << >>
  /\ authCollections = << >>
  /\ roles = << >>
  /\ addActivityLogging = FALSE
  /\ idx = 0
  /\ fs = { }
  /\ dirs = { }
  /\ writeLog = << >>
  /\ ran = << >>
  /\ prompts = << >>
  /\ error = NoError
  /\ console = << >>
  /\ rlClosed = 0

\* ------------------------------------------------------ generateStore steps

\* the store-name prompt without its emptiness check
AskStoreName_NoCheck ==
  /\ pc = "askStore"
  /\ \E answer \in StoreNameAnswers :
       /\ storeName' = trim(answer)
       /\ prompts' = Append(prompts, "storeName")
  /\ pc' = "askCollections"
  /\ UNCHANGED << collections, authCollections, roles, addActivityLogging, idx,
                  fs, dirs, writeLog, ran, error, console, rlClosed,
                  sessionVars, genVars >>

\* const storeName = await ask(...); if (!storeName) throw ...
AskStoreName ==
  /\ pc = "askStore"
  /\ \E answer \in StoreNameAnswers :
       /\ storeName' = trim(answer)
       /\ prompts' = Append(prompts, "storeName")
       /\ IF trim(answer) = << >>
          THEN /\ error' = Err("", << >>, "Store name is required")
               /\ pc' = "catch"
          ELSE /\ error' = error
               /\ pc' = "askCollections"
  /\ UNCHANGED << collections, authCollections, roles, addActivityLogging, idx,
                  fs, dirs, writeLog, ran, console, rlClosed, sessionVars, genVars >>

\* const collections = collectionsInput.split(',').map(...).filter(Boolean);
\* if (collections.length === 0) throw ...; const authCollections = ...
AskCollections ==
  /\ pc = "askCollections"
  /\ \E answer \in CollectionAnswers :
       LET segments == trimAnswer(answer)
           cols == FilterBoolean(MapTrimCamel(segments))
           auth == SelectSeq(cols, isAuthCollection)
       IN /\ prompts' = Append(prompts, "collections")
          /\ collections' = cols
          /\ IF Len(cols) = 0
             THEN /\ error' = Err("", << >>, "At least one collection is required")
                  /\ pc' = "catch"
                  /\ authCollections' = authCollections
             ELSE /\ error' = error
                  /\ authCollections' = auth
                  /\ pc' = IF Len(auth) > 0 THEN "askRoles" ELSE "ensureDir"
  /\ UNCHANGED << storeName, roles, addActivityLogging, idx, fs, dirs, writeLog,
                  ran, console, rlClosed, sessionVars, genVars >>

\* roles = rolesInput.split(',').map(r => r.trim()).filter(Boolean)
AskRoles ==
  /\ pc = "askRoles"
  /\ \E answer \in RoleAnswers :
       /\ roles' = FilterBoolean(MapTrim(trimAnswer(answer)))
       /\ prompts' = Append(prompts, "roles")
  /\ pc' = "ensureDir"
  /\ UNCHANGED << storeName, collections, authCollections, addActivityLogging,
                  idx, fs, dirs, writeLog, ran, error, console, rlClosed,
                  sessionVars, genVars >>

\* ensureDir(actionsDir): mkdirSync(dirPath, {recursive: true}) or throw
EnsureDir ==
  /\ pc = "ensureDir"
  /\ \/ /\ dirs' = dirs \cup { BaseDir(storeName), ActionsDir(storeName) }
        /\ pc' = IF Len(authCollections) > 0 THEN "askLogging" ELSE "genState"
        /\ error' = error
     \/ /\ ActionsDir(storeName) \notin dirs
        /\ dirs' = dirs
        /\ error' = Err("Failed to create directory", << >>, "mkdir")
        /\ pc' = "catch"
  /\ UNCHANGED << storeName, collections, authCollections, roles,
                  addActivityLogging, idx, fs, writeLog, ran, prompts, console,
                  rlClosed, sessionVars, genVars >>

\* addActivityLogging = activityLogInput.toLowerCase() === 'y'
AskActivityLogging ==
  /\ pc = "askLogging"
  /\ \E answer \in LoggingAnswers :
       /\ addActivityLogging' = (toLowerCase(trim(answer)) = <<"y">>)
       /\ prompts' = Append(prompts, "logging")
  /\ pc' = "genState"
  /\ UNCHANGED << storeName, collections, authCollections, roles, idx, fs, dirs,
                  writeLog, ran, error, console, rlClosed, sessionVars, genVars >>

\* a composer that logs a failed write and carries on, as
\* generateDocumentation does
ComposeAndWrite_Swallow(step, path, content, context, next) ==
  /\ ran' = Append(ran, step)
  /\ \/ /\ fs' = writeFile(fs, path, content)
        /\ writeLog' = Append(writeLog, path)
        /\ error' = error
        /\ pc' = next
     \/ /\ fs' = fs
        /\ writeLog' = writeLog
        /\ error' = Err(context, << >>, "Failed to write file")
        /\ pc' = next

\* A composer that makes one writeFile call and re-throws with its context:
\* generateStateFile, generateFirestoreUtilFile, generateIndexFile,
\* generateActivityLogger.
ComposeAndWrite(step, path, content, context, next) ==
  /\ ran' = Append(ran, step)
  /\ \/ /\ fs' = writeFile(fs, path, content)
        /\ writeLog' = Append(writeLog, path)
        /\ error' = error
        /\ pc' = next
     \/ /\ fs' = fs
        /\ writeLog' = writeLog
        /\ error' = Err(context, << >>, "Failed to write file")
        /\ pc' = "catch"

GenerateStateFile ==
  /\ pc = "genState"
  /\ ComposeAndWrite("state", Path(storeName, "state.js", << >>),
                     StateContent(storeName, collections, authCollections,
                                  addActivityLogging),
                     "Error generating state file", "genUtil")
  /\ UNCHANGED << storeName, collections, authCollections, roles,
                  addActivityLogging, idx, dirs, prompts, console, rlClosed,
                  sessionVars, genVars >>

GenerateFirestoreUtilFile ==
  /\ pc = "genUtil"
  /\ ComposeAndWrite("util",
                     Path(storeName, "useFirestoreCollectionActions.js", << >>),
                     UtilContent(authCollections, roles, addActivityLogging),
                     "Error generating Firestore utility file", "genActions")
  /\ idx' = 1
  /\ UNCHANGED << storeName, collections, authCollections, roles,
                  addActivityLogging, dirs, prompts, console, rlClosed,
                  sessionVars, genVars >>

\* a loop that walks the array from its end
ForEachElement_Reversed(array, i) == array[Len(array) + 1 - i]

\* array.forEach visits the elements in index order
ForEachElement(array, i) == array[i]

\* a loop that reports an invalid name and goes on with the next collection
GenerateCollectionActionModule_Skip ==
  /\ pc = "genActions"
  /\ LET collectionName == collections[idx]
         filePath == Path(storeName, "actions", collectionName)
     IN /\ ran' = Append(ran, "actions")
        /\ IF ~ValidCollectionName(collectionName)
           THEN /\ console' = Append(console,
                                     [stream |-> "stderr", text |-> "Error",
                                      err |-> Err("[Action Generator]", collectionName,
                                                  "Invalid Firestore collection name")])
                /\ UNCHANGED << fs, dirs, writeLog, error >>
           ELSE /\ fs' = writeFile(fs, filePath, ActionContent(collectionName))
                /\ writeLog' = Append(writeLog, filePath)
                /\ UNCHANGED << dirs, console, error >>
        /\ idx' = idx + 1
        /\ pc' = IF idx = Len(collections) THEN "genIndex" ELSE "genActions"
  /\ UNCHANGED << storeName, collections, authCollections, roles,
                  addActivityLogging, prompts, rlClosed, sessionVars, genVars >>

\* collections.forEach(collection => generateCollectionActionModule(baseDir,
\* collection)): one call per step
GenerateCollectionActionModule ==
  /\ pc = "genActions"
  /\ LET collectionName == ForEachElement(collections, idx)
         filePath == Path(storeName, "actions", collectionName)
         context == "[Action Generator]"
     IN /\ ran' = Append(ran, "actions")
        /\ IF ~ValidCollectionName(collectionName)
           THEN /\ error' = Err(context, collectionName,
                                "Invalid Firestore collection name")
                /\ pc' = "catch"
                /\ UNCHANGED << fs, dirs, writeLog, idx >>
           ELSE \/ /\ dirs' = dirs \cup { BaseDir(storeName), ActionsDir(storeName) }
                   /\ fs' = writeFile(fs, filePath, ActionContent(collectionName))
                   /\ writeLog' = Append(writeLog, filePath)
                   /\ error' = error
                   /\ idx' = idx + 1
                   /\ pc' = IF idx = Len(collections) THEN "genIndex" ELSE "genActions"
                \/ /\ dirs' = dirs \cup { BaseDir(storeName), ActionsDir(storeName) }
                   /\ error' = Err(context, collectionName, "Failed to write file")
                   /\ pc' = "catch"
                   /\ UNCHANGED << fs, writeLog, idx >>
  /\ UNCHANGED << storeName, collections, authCollections, roles,
                  addActivityLogging, prompts, console, rlClosed, sessionVars, genVars >>

\* a run that calls generateActivityLogger whatever the logging answer was
GenerateIndexFile_AlwaysLogger ==
  /\ pc = "genIndex"
  /\ ComposeAndWrite("index", Path(storeName, "index.js", << >>),
                     IndexContent(storeName, collections, authCollections,
                                  addActivityLogging),
                     "Error generating index file",
                     "genLogger")
  /\ UNCHANGED << storeName, collections, authCollections, roles,
                  addActivityLogging, idx, dirs, prompts, console, rlClosed,
                  sessionVars, genVars >>

\* generateIndexFile(...); if (addActivityLogging) generateActivityLogger(...)
GenerateIndexFile ==
  /\ pc = "genIndex"
  /\ ComposeAndWrite("index", Path(storeName, "index.js", << >>),
                     IndexContent(storeName, collections, authCollections,
                                  addActivityLogging),
                     "Error generating index file",
                     IF addActivityLogging THEN "genLogger" ELSE "genDocs")
  /\ UNCHANGED << storeName, collections, authCollections, roles,
                  addActivityLogging, idx, dirs, prompts, console, rlClosed,
                  sessionVars, genVars >>

\* if (addActivityLogging) generateActivityLogger(baseDir)
GenerateActivityLogger ==
  /\ pc = "genLogger"
  /\ ComposeAndWrite("logger", Path(storeName, "activityLogger.js", << >>),
                     LoggerContent, "[Activity Logger] Generation failed",
                     "genDocs")
  /\ UNCHANGED << storeName, collections, authCollections, roles,
                  addActivityLogging, idx, dirs, prompts, console, rlClosed,
                  sessionVars, genVars >>

\* generateDocumentation logs a failed write and does not re-throw
GenerateDocumentation ==
  /\ pc = "genDocs"
  /\ ran' = Append(ran, "docs")
  /\ LET storeDocPath == Path(storeName, "STORE_GUIDE.md", << >>)
     IN \/ \E generatedDate \in Stamps :
             /\ fs' = writeFile(fs, storeDocPath,
                                DocContent(storeName, collections, authCollections,
                                           roles, addActivityLogging, generatedDate))
             /\ writeLog' = Append(writeLog, storeDocPath)
             /\ console' = Append(console, [stream |-> "stdout",
                                            text |-> "Documentation generated",
                                            err |-> NoError])
        \/ /\ fs' = fs
           /\ writeLog' = writeLog
           /\ console' = Append(console, [stream |-> "stderr",
                                          text |-> "Documentation error",
                                          err |-> Err("", << >>, "Failed to write file")])
  /\ pc' = "success"
  /\ UNCHANGED << storeName, collections, authCollections, roles,
                  addActivityLogging, idx, dirs, prompts, error, rlClosed,
                  sessionVars, genVars >>

\* console.log(`Store ${storeName} generated successfully.`)
LogSuccess ==
  /\ pc = "success"
  /\ console' = Append(console, [stream |-> "stdout",
                                 text |-> "generated successfully",
                                 err |-> NoError])
  /\ pc' = "finally"
  /\ UNCHANGED << storeName, collections, authCollections, roles,
                  addActivityLogging, idx, fs, dirs, writeLog, ran, prompts,
                  error, rlClosed, sessionVars, genVars >>

\* a catch block that ends the run itself, rl.close() being the last statement
\* of the try block instead of a finally block
CatchError_NoFinally ==
  /\ pc = "catch"
  /\ console' = Append(console, [stream |-> "stderr", text |-> "Error",
                                 err |-> error])
  /\ pc' = "done"
  /\ UNCHANGED << storeName, collections, authCollections, roles,
                  addActivityLogging, idx, fs, dirs, writeLog, ran, prompts,
                  error, rlClosed, sessionVars, genVars >>

\* catch (error) { console.error(error.message); console.error(error.stack) }
CatchError ==
  /\ pc = "catch"
  /\ console' = Append(console, [stream |-> "stderr", text |-> "Error",
                                 err |-> error])
  /\ pc' = "finally"
  /\ UNCHANGED << storeName, collections, authCollections, roles,
                  addActivityLogging, idx, fs, dirs, writeLog, ran, prompts,
                  error, rlClosed, sessionVars, genVars >>

\* finally { rl.close() }
Finally ==
  /\ pc = "finally"
  /\ rlClosed' = rlClosed + 1
  /\ pc' = "done"
  /\ UNCHANGED << storeName, collections, authCollections, roles,
                  addActivityLogging, idx, fs, dirs, writeLog, ran, prompts,
                  error, console, sessionVars, genVars >>

NextDriver ==
  \/ AskStoreName
  \/ AskCollections
  \/ AskRoles
  \/ EnsureDir
  \/ AskActivityLogging
  \/ GenerateStateFile
  \/ GenerateFirestoreUtilFile
  \/ GenerateCollectionActionModule
  \/ GenerateIndexFile
  \/ GenerateActivityLogger
  \/ GenerateDocumentation
  \/ LogSuccess
  \/ CatchError
  \/ Finally

\* ------------------------------------------ generated store: session restore

\* no user: null
NoUser == "null"

\* the accounts of the auth provider
Uids == { "u1" }

\* a value of state.currentUser.value: null, or the provider's record of uid,
\* with or without the profile document merged into it
\* displayName is the provider's, copied when the record is spread into a value
UserValue(uid, merged) ==
  [uid |-> uid, merged |-> merged,
   displayName |-> IF uid = NoUser THEN "none" ELSE displayName]

Null == UserValue(NoUser, FALSE)

InitSession ==
  /\ authInitialized = FALSE
  /\ currentUser = Null
  /\ authUser \in Uids \cup { NoUser }
  /\ listeners = << >>
  /\ calls = << >>
  /\ changes = 0
  /\ epoch = 0

\* a resolve that is lost
Resolve_Drop(cs, c, value) == cs

\* resolve(value) of the promise of invocation c; a settled promise stays as
\* it is
Resolve(cs, c, value) ==
  IF cs[c].status = "pending"
  THEN [cs EXCEPT ![c] = [@ EXCEPT !.status = "resolved", !.value = value,
                                   !.resolvedAt = epoch']]
  ELSE cs

NewCall == [status |-> "pending", value |-> Null, invokedAt |-> epoch,
            resolvedAt |-> 0, sequential |-> \A c \in DOMAIN calls :
                                               calls[c].status = "resolved"]

\* fetchUser without its guard
ShouldSubscribe_Always == TRUE

\* if (!state.authInitialized.value) onAuthStateChanged(auth, callback)
ShouldSubscribe == ~authInitialized

\* fetchUser(): subscribes, or resolves with state.currentUser.value
FetchUser ==
  /\ Len(calls) < MaxCalls
  /\ IF ShouldSubscribe
     THEN /\ listeners' = Append(listeners,
                                 [call |-> Len(calls) + 1,
                                  pending |-> << authUser >>,
                                  inflight |-> << >>])
          /\ calls' = Append(calls, NewCall)
     ELSE /\ listeners' = listeners
          /\ calls' = Append(calls, [NewCall EXCEPT !.status = "resolved",
                                                    !.value = currentUser,
                                                    !.resolvedAt = epoch])
  /\ UNCHANGED << authInitialized, currentUser, authUser, changes, epoch,
                  driverVars, genVars >>

\* the provider signs a user in or out and notifies every listener
AuthStateChange ==
  /\ changes < MaxAuthChanges
  /\ \E u \in (Uids \cup { NoUser }) \ { authUser } :
       /\ authUser' = u
       /\ listeners' = [ l \in DOMAIN listeners |->
                           [listeners[l] EXCEPT !.pending = Append(@, u)] ]
  /\ changes' = changes + 1
  /\ UNCHANGED << authInitialized, currentUser, calls, epoch, driverVars, genVars >>

\* the callback starts on the next notification of listener l: with no user
\* it runs to its end, with a user it suspends at await ...Actions.get(uid)
CallbackStart(l) ==
  /\ listeners[l].pending # << >>
  /\ LET firebaseUser == Head(listeners[l].pending)
     IN IF firebaseUser = NoUser
        THEN /\ currentUser' = Null
             /\ epoch' = epoch + 1
             /\ authInitialized' = TRUE
             /\ calls' = Resolve(calls, listeners[l].call, Null)
             /\ listeners' = [listeners EXCEPT ![l].pending = Tail(@)]
        ELSE /\ listeners' = [listeners EXCEPT
                                ![l].pending = Tail(@),
                                ![l].inflight = Append(@, firebaseUser)]
             /\ UNCHANGED << currentUser, epoch, authInitialized, calls >>
  /\ UNCHANGED << authUser, changes, driverVars, genVars >>

RemoveAt(s, k) == SubSeq(s, 1, k - 1) \o SubSeq(s, k + 1, Len(s))

\* the profile fetch of a suspended callback settles: the profile is merged,
\* or the fetch failed and the provider's record is kept; then the finally
\* block marks the store initialized and resolves
CallbackFinish(l, k) ==
  /\ epoch' = epoch + 1
  /\ authInitialized' = TRUE
  /\ \E fetched \in BOOLEAN :
       LET value == UserValue(listeners[l].inflight[k], fetched)
       IN /\ currentUser' = value
          /\ calls' = Resolve(calls, listeners[l].call, value)
  /\ listeners' = [listeners EXCEPT ![l].inflight = RemoveAt(@, k)]
  /\ UNCHANGED << authUser, changes, driverVars, genVars >>

NextSession ==
  \/ FetchUser
  \/ AuthStateChange
  \/ \E l \in DOMAIN listeners : CallbackStart(l)
  \/ \E l \in DOMAIN listeners :
       \E k \in DOMAIN listeners[l].inflight : CallbackFinish(l, k)

\* ------------------------------------------------- a second invocation

\* what an invocation leaves behind for the next one to find
Snapshot ==
  [storeName |-> storeName, collections |-> collections, roles |-> roles,
   addActivityLogging |-> addActivityLogging, fs |-> fs, error |-> error]

NoSnapshot ==
  [storeName |-> << >>, collections |-> << >>, roles |-> << >>,
   addActivityLogging |-> FALSE, fs |-> { }, error |-> NoError]

InitTwice ==
  /\ run = 1
  /\ first = NoSnapshot

\* generateStore() is started again in a new process: its locals and the
\* readline interface are new, the disk is as the first invocation left it
Rerun ==
  /\ pc = "done"
  /\ run = 1
  /\ run' = run + 1
  /\ first' = Snapshot
  /\ pc' = "askStore"
  /\ storeName' = << >>
  /\ collections' = << >>
  /\ authCollections' = << >>
  /\ roles' = << >>
  /\ addActivityLogging' = FALSE
  /\ idx' = 0
  /\ writeLog' = << >>
  /\ ran' = << >>
  /\ prompts' = << >>
  /\ error' = NoError
  /\ console' = << >>
  /\ rlClosed' = 0
  /\ UNCHANGED << laterVars, fs, dirs, sessionVars, namingVars, wrapperVars, utilVars,
                  flagVars, flowVars >>

\* The prompts of the second invocation, answered as those of the first
\* were: each ask reads what the first invocation read and goes on as the
\* code does after that answer.
AskAgain ==
  /\ run > 1
  /\ \/ /\ pc = "askStore"
        /\ storeName' = first.storeName
        /\ prompts' = Append(prompts, "storeName")
        /\ IF first.storeName = << >>
           THEN /\ error' = Err("", << >>, "Store name is required")
                /\ pc' = "catch"
           ELSE /\ error' = error
                /\ pc' = "askCollections"
        /\ UNCHANGED << collections, authCollections, roles, addActivityLogging >>
     \/ /\ pc = "askCollections"
        /\ collections' = first.collections
        /\ prompts' = Append(prompts, "collections")
        /\ IF Len(first.collections) = 0
           THEN /\ error' = Err("", << >>, "At least one collection is required")
                /\ pc' = "catch"
                /\ authCollections' = authCollections
           ELSE /\ error' = error
                /\ authCollections' = SelectSeq(first.collections, isAuthCollection)
                /\ pc' = IF Len(authCollections') > 0 THEN "askRoles" ELSE "ensureDir"
        /\ UNCHANGED << storeName, roles, addActivityLogging >>
     \/ /\ pc = "askRoles"
        /\ roles' = first.roles
        /\ prompts' = Append(prompts, "roles")
        /\ pc' = "ensureDir"
        /\ UNCHANGED << storeName, collections, authCollections,
                        addActivityLogging, error >>
     \/ /\ pc = "askLogging"
        /\ addActivityLogging' = first.addActivityLogging
        /\ prompts' = Append(prompts, "logging")
        /\ pc' = "genState"
        /\ UNCHANGED << storeName, collections, authCollections, roles, error >>
  /\ UNCHANGED << idx, fs, dirs, writeLog, ran, console, rlClosed, sessionVars,
                  genVars >>

\* the steps of generateStore that ask nothing
NextGenerate ==
  \/ EnsureDir
  \/ GenerateStateFile
  \/ GenerateFirestoreUtilFile
  \/ GenerateCollectionActionModule
  \/ GenerateIndexFile
  \/ GenerateActivityLogger
  \/ GenerateDocumentation
  \/ LogSuccess
  \/ CatchError
  \/ Finally

NextTwice ==
  \/ run = 1 /\ NextDriver
  \/ Rerun
  \/ AskAgain
  \/ run > 1 /\ NextGenerate

\* --------------------------------------------- names derived from an answer

Client == <<"c","l","i","e","n","t">>
Submissions == <<"s","u","b","m","i","s","s","i","o","n","s">>
Items == <<"i","t","e","m","s">>
Where == <<"w","h","e","r","e">>

\* the words a collection name is made of
TokenLists == { << Items >>, << Where, Items >>, << Client, Submissions >> }

toUpperCase(s) == [ i \in DOMAIN s |-> UpperChar(s[i]) ]

\* the letter case a word is typed in
Styles == { "lower", "upper", "capital" }

Styled(token, style) ==
  CASE style = "lower" -> token
    [] style = "upper" -> toUpperCase(token)
    [] style = "capital" -> capitalize(token)

\* what is typed between two words: one or more of hyphen, underscore, space
Separators == { <<"-">>, <<"_">>, <<" ">>, <<" ","-"," ">> }

RECURSIVE Render(_, _, _, _)
Render(tokens, styles, sep, i) ==
  IF i > Len(tokens) THEN << >>
  ELSE (IF i = 1 THEN << >> ELSE sep) \o Styled(tokens[i], styles[i])
         \o Render(tokens, styles, sep, i + 1)

\* the ways of typing one list of words as a collection name
Renderings(tokens) ==
  { Render(tokens, st, sep, 1) :
      st \in [1..Len(tokens) -> Styles], sep \in Separators }

\* the export names of the module generateCollectionActionModule writes for a
\* derived name, none when it rejects the name
MemberNames(collectionName) ==
  IF ValidCollectionName(collectionName)
  THEN [ i \in 1..Len(actionDescriptors) |-> ActionMembers(collectionName)[i].name ]
  ELSE << >>

\* what a run derives from one segment of the collections answer
Derived(raw) ==
  [raw |-> raw,
   name |-> TrimCamel(raw),
   suffix |-> capitalize(TrimCamel(raw)),
   members |-> MemberNames(TrimCamel(raw))]

NotDerived(raw) == [raw |-> raw, name |-> << >>, suffix |-> << >>, members |-> << >>]

IdleNaming ==
  nm = [phase |-> "idle", tokensA |-> << >>, tokensB |-> << >>,
        a |-> NotDerived(<< >>), b |-> NotDerived(<< >>)]

\* two collection names are typed
DrawNames ==
  /\ nm.phase = "idle"
  /\ \E ta \in TokenLists, tb \in TokenLists :
       \E ra \in Renderings(ta), rb \in Renderings(tb) :
         nm' = [phase |-> "drawn", tokensA |-> ta, tokensB |-> tb,
                a |-> NotDerived(ra), b |-> NotDerived(rb)]
  /\ UNCHANGED << laterVars, driverVars, sessionVars, twiceVars, wrapperVars, utilVars,
                  flagVars, flowVars >>

\* collections.map(c => toCamelCase(c).trim()), then capitalize and
\* exportName in generateCollectionActionModule
DeriveNames ==
  /\ nm.phase = "drawn"
  /\ nm' = [nm EXCEPT !.phase = "derived",
                      !.a = Derived(nm.a.raw),
                      !.b = Derived(nm.b.raw)]
  /\ UNCHANGED << laterVars, driverVars, sessionVars, twiceVars, wrapperVars, utilVars,
                  flagVars, flowVars >>

NextNaming ==
  \/ DrawNames
  \/ DeriveNames

\* ------------------------------------- a generated per-collection module

MaxWrapperCalls == 2

\* the arguments a caller passes to a wrapper
ArgLists == { << >>, << "a1" >>, << "a1", "a2" >> }

NoInstance == 0

IdleWrapper ==
  /\ actionsInstance = NoInstance
  /\ factoryCalls = 0
  /\ forwarded = << >>

\* getActions without its guard
NeedsFactory_Always == TRUE

\* if (!actionsInstance)
NeedsFactory == actionsInstance = NoInstance

\* funcName(...args) { return getActions().key(...args) }: args collects every
\* argument of the call and ...args passes every one on
SpreadArgs(args) == args

\* one call of the wrapper of descriptor d: getActions() calls the factory
\* when there is no instance yet, and the call goes to the instance
WrapperCall(d, args) ==
  /\ Len(forwarded) < MaxWrapperCalls
  /\ LET instance == IF NeedsFactory THEN factoryCalls + 1 ELSE actionsInstance
     IN /\ factoryCalls' = IF NeedsFactory THEN factoryCalls + 1 ELSE factoryCalls
        /\ actionsInstance' = instance
        /\ forwarded' = Append(forwarded,
                               [descriptor |-> d,
                                given |-> args,
                                key |-> actionDescriptors[d].key,
                                args |-> SpreadArgs(args),
                                instance |-> instance])
  /\ UNCHANGED << laterVars, driverVars, sessionVars, twiceVars, namingVars, utilVars,
                  flagVars, flowVars >>

NextWrapper ==
  \E d \in DOMAIN actionDescriptors : \E args \in ArgLists : WrapperCall(d, args)

\* ------------------------------ the shared factory and the activity logger

MaxOps == 2

RoleNames == { "admin", "editor" }

\* a value of state.currentUser.value as the factory reads it: the uid, and
\* the roles field, which a user record may lack
StoreUser(uid, hasRoles, rls) == [uid |-> uid, hasRoles |-> hasRoles, roles |-> rls]

NoStoreUser == StoreUser(NoUser, FALSE, { })

StoreUsers ==
  { NoStoreUser,
    StoreUser("u1", FALSE, { }),
    StoreUser("u1", TRUE, { }),
    StoreUser("u1", TRUE, { "editor" }),
    StoreUser("u1", TRUE, { "admin" }) }

\* the document of the user whose roles are changed
UserDoc(exists, rls) == [exists |-> exists, roles |-> rls]

UserDocs == { UserDoc(FALSE, { }), UserDoc(TRUE, { }), UserDoc(TRUE, { "editor" }) }

\* the roles argument of assignRoles and revokeRoles
RoleArgs == { { "editor" }, { "admin" } }

\* a _checkRole that lets every caller through
checkRole_Pass(user, requiredRole) == ""

\* _checkRole(requiredRole): what it throws, "" when it returns
checkRole(user, requiredRole) ==
  IF user.uid = NoUser \/ ~user.hasRoles
  THEN "User not authenticated or roles not defined"
  ELSE IF requiredRole \notin user.roles
       THEN "User lacks required role"
       ELSE ""

\* an activity without actor fields
NoActor == [actorId |-> "", actorType |-> "", isAdminAction |-> FALSE]

\* _getActorContext(store)
getActorContext(user) ==
  IF user.uid # NoUser
  THEN [actorId |-> user.uid,
        actorType |-> IF user.hasRoles /\ "admin" \in user.roles
                      THEN "Admin" ELSE "User",
        isAdminAction |-> user.hasRoles /\ "admin" \in user.roles]
  ELSE [actorId |-> "system_generated",
        actorType |-> "System",
        isAdminAction |-> FALSE]

\* value || fallback on strings
Or(value, fallback) == IF value = "" THEN fallback ELSE value

\* the document logActivity builds, without the defaults of its actor fields
LogRecord_NoDefault(type, actor) ==
  [type |-> type,
   actorId |-> actor.actorId,
   actorType |-> actor.actorType,
   isAdminAction |-> actor.isAdminAction]

\* the document logActivity passes to addDoc
LogRecord(type, actor) ==
  [type |-> type,
   actorId |-> Or(actor.actorId, "system_generated"),
   actorType |-> Or(actor.actorType, "System"),
   isAdminAction |-> actor.isAdminAction]

\* one addDoc call on recentActivity: the document, the operation that made
\* the call, the current user the actor fields were taken from
Entry(type, actor, by, name) ==
  [record |-> LogRecord(type, actor), by |-> by, op |-> name, status |-> "pending"]

NoOp ==
  [name |-> "none", at |-> "", arg |-> { }, actor |-> NoActor,
   by |-> NoStoreUser, events |-> << >>]

IdleFlags ==
  /\ loading = FALSE
  /\ errorField = "null"

IdleUtil ==
  /\ gen = [logging |-> FALSE, hasRoles |-> FALSE, isAuth |-> FALSE]
  /\ storeUser = NoStoreUser
  /\ userDoc = UserDoc(FALSE, { })
  /\ op = NoOp
  /\ finished = << >>
  /\ activity = << >>

\* a store generated for an auth collection, from any roles answer and any
\* logging answer; someone or no one is signed in
InitUtil ==
  /\ gen \in [logging : BOOLEAN, hasRoles : BOOLEAN, isAuth : { TRUE }]
  /\ storeUser \in StoreUsers
  /\ userDoc \in UserDocs
  /\ op = NoOp
  /\ finished = << >>
  /\ activity = << >>

\* the generated operation never logs
ShouldLog_Never == FALSE

\* if (${addActivityLogging})
ShouldLog == gen.logging

\* the operation in flight settles: the promise it returned is fulfilled, or
\* rejected after catch stored the message; finally clears loading
Settled(name, ok, events, missing) ==
  [name |-> name, ok |-> ok, events |-> events, missing |-> missing]

\* assignRoles(userId, roles) and revokeRoles(userId, roles) up to their first
\* await: _checkRole('admin') throws, or the first request is sent
BeginRoleOp(name, arg) ==
  /\ op = NoOp
  /\ Len(finished) < MaxOps
  /\ gen.hasRoles
  /\ LET thrown == checkRole(storeUser, "admin")
     IN IF thrown # ""
        THEN /\ errorField' = thrown
             /\ loading' = FALSE
             /\ finished' = Append(finished,
                                   Settled(name, FALSE, << "checkRole" >>, FALSE))
             /\ op' = op
        ELSE /\ loading' = TRUE
             /\ errorField' = errorField
             /\ finished' = finished
             /\ op' = [NoOp EXCEPT
                         !.name = name,
                         !.arg = arg,
                         !.at = IF name = "assignRoles" THEN "updateDoc" ELSE "getDoc",
                         !.events = << "checkRole" >>]
  /\ UNCHANGED << gen, storeUser, userDoc, activity >>
  /\ UNCHANGED << laterVars, driverVars, sessionVars, twiceVars, namingVars, wrapperVars,
                  flowVars >>

\* update(id, data) up to its first await: the actor context is read at entry
BeginUpdate ==
  /\ op = NoOp
  /\ Len(finished) < MaxOps
  /\ loading' = TRUE
  /\ op' = [NoOp EXCEPT
              !.name = "update",
              !.at = "updateDoc",
              !.actor = IF ShouldLog THEN getActorContext(storeUser) ELSE NoActor,
              !.by = storeUser]
  /\ UNCHANGED << gen, storeUser, userDoc, finished, activity, errorField >>
  /\ UNCHANGED << laterVars, driverVars, sessionVars, twiceVars, namingVars, wrapperVars,
                  flowVars >>

\* logActivity({type, description}, store) called by the application with no
\* actor fields, as in the example of its documentation
BeginLogActivity ==
  /\ op = NoOp
  /\ Len(finished) < MaxOps
  /\ gen.logging
  /\ activity' = Append(activity,
                        Entry("USER_LOGIN", NoActor, storeUser, "logActivity"))
  /\ op' = [NoOp EXCEPT !.name = "logActivity", !.at = "addDoc",
                        !.events = << "addDoc" >>]
  /\ UNCHANGED << gen, storeUser, userDoc, finished, loading, errorField >>
  /\ UNCHANGED << laterVars, driverVars, sessionVars, twiceVars, namingVars, wrapperVars,
                  flowVars >>

\* catch (error) { state.error.value = error.message; throw error }
\* finally { state.loading.value = false }
RejectOp(message, event) ==
  /\ errorField' = message
  /\ loading' = FALSE
  /\ finished' = Append(finished,
                        Settled(op.name, FALSE, Append(op.events, event), FALSE))
  /\ op' = NoOp

\* the try block ran to its end
FulfilOp(events, missing) ==
  /\ loading' = FALSE
  /\ finished' = Append(finished, Settled(op.name, TRUE, events, missing))
  /\ op' = NoOp

\* await getDoc(userRef) of revokeRoles settles: without the document there is
\* nothing to revoke and the call ends
SettleGetDoc ==
  /\ op.at = "getDoc"
  /\ \/ /\ userDoc.exists
        /\ op' = [op EXCEPT !.at = "updateDoc", !.events = Append(@, "getDoc")]
        /\ UNCHANGED << finished, loading, errorField >>
     \/ /\ ~userDoc.exists
        /\ FulfilOp(Append(op.events, "getDoc"), TRUE)
        /\ errorField' = errorField
     \/ RejectOp("getDoc failed", "getDoc failed")
  /\ UNCHANGED << gen, storeUser, userDoc, activity >>
  /\ UNCHANGED << laterVars, driverVars, sessionVars, twiceVars, namingVars, wrapperVars,
                  flowVars >>

\* the roles the document holds after the update
NewRoles ==
  CASE op.name = "assignRoles" -> op.arg
    [] op.name = "revokeRoles" -> userDoc.roles \ op.arg
    [] OTHER -> userDoc.roles

ActivityType ==
  CASE op.name = "assignRoles" -> "ROLES_ASSIGNED"
    [] op.name = "revokeRoles" -> "ROLES_REVOKED"
    [] OTHER -> "UPDATED"

\* await updateDoc(...) settles; with logging the operation goes on to
\* logActivity, which calls addDoc. assignRoles and revokeRoles read the actor
\* context here, update has read it at entry
SettleUpdateDoc ==
  /\ op.at = "updateDoc"
  /\ \/ /\ userDoc.exists
        /\ userDoc' = [userDoc EXCEPT !.roles = NewRoles]
        /\ IF ShouldLog
           THEN LET by == IF op.name = "update" THEN op.by ELSE storeUser
                    actor == IF op.name = "update" THEN op.actor
                             ELSE getActorContext(by)
                IN /\ activity' = Append(activity,
                                         Entry(ActivityType, actor, by, op.name))
                   /\ op' = [op EXCEPT !.at = "addDoc",
                                       !.events = @ \o << "updateDoc", "addDoc" >>]
                   /\ UNCHANGED << finished, loading, errorField >>
           ELSE /\ FulfilOp(Append(op.events, "updateDoc"), FALSE)
                /\ UNCHANGED << activity, errorField >>
     \/ /\ RejectOp("updateDoc failed", "updateDoc failed")
        /\ UNCHANGED << userDoc, activity >>
  /\ UNCHANGED << gen, storeUser >>
  /\ UNCHANGED << laterVars, driverVars, sessionVars, twiceVars, namingVars, wrapperVars,
                  flowVars >>

\* await addDoc(...) of logActivity settles: logActivity returns either way,
\* after a failure with "Failed to log activity" in store.error; a direct call
\* leaves loading alone
SettleAddDoc ==
  /\ op.at = "addDoc"
  /\ \E ok \in BOOLEAN :
       /\ activity' = [activity EXCEPT ![Len(activity)].status =
                         IF ok THEN "written" ELSE "failed"]
       /\ errorField' = IF ok THEN errorField ELSE "Failed to log activity"
  /\ finished' = Append(finished, Settled(op.name, TRUE, op.events, FALSE))
  /\ loading' = IF op.name = "logActivity" THEN loading ELSE FALSE
  /\ op' = NoOp
  /\ UNCHANGED << gen, storeUser, userDoc >>
  /\ UNCHANGED << laterVars, driverVars, sessionVars, twiceVars, namingVars, wrapperVars,
                  flowVars >>

\* someone else signs in, or the user signs out, between or during operations
ChangeUser ==
  /\ \E u \in StoreUsers \ { storeUser } : storeUser' = u
  /\ UNCHANGED << gen, userDoc, op, finished, activity, flagVars >>
  /\ UNCHANGED << laterVars, driverVars, sessionVars, twiceVars, namingVars, wrapperVars,
                  flowVars >>

NextUtil ==
  \/ \E name \in { "assignRoles", "revokeRoles" } : \E arg \in RoleArgs :
       BeginRoleOp(name, arg)
  \/ BeginUpdate
  \/ BeginLogActivity
  \/ SettleGetDoc
  \/ SettleUpdateDoc
  \/ SettleAddDoc
  \/ ChangeUser

\* ------------------------------------------- the generated auth flows

MaxFlows == 2

\* the flows of the auth block other than fetchUser, which is modelled above
FlowNames ==
  { "login", "signUp", "logout", "sendPasswordReset", "updateProfile",
    "changePassword", "resendVerificationEmail" }

\* the awaits of a flow, in order; signUp is called with a display name and
\* with sendVerification left at its default
Awaits(name) ==
  CASE name = "login" -> << "setPersistence", "signIn", "getProfile" >>
    [] name = "signUp" ->
         << "createUser", "updateAuthProfile", "addProfile", "sendVerification" >>
    [] name = "logout" -> << "signOut" >>
    [] name = "sendPasswordReset" -> << "sendReset" >>
    [] name = "updateProfile" -> << "updateAuthProfile", "updateDoc", "getProfile" >>
    [] name = "changePassword" -> << "reauth", "updatePassword" >>
    [] name = "resendVerificationEmail" -> << "sendVerification" >>

\* what an awaited call rejects with: code is "" when the error has none
ErrorValues ==
  { [code |-> "auth/user-not-found", message |-> "Firebase: Error"],
    [code |-> "auth/too-many-requests", message |-> "Firebase: Error"],
    [code |-> "auth/weak-password", message |-> "Firebase: Error"],
    [code |-> "unavailable", message |-> "Firebase: Error"],
    [code |-> "unavailable", message |-> ""] }

\* the cases of a flow's switch (error.code) for the codes above, "" for a
\* code the switch has no case for
TableMessage(name, code) ==
  CASE name = "login" /\ code = "auth/user-not-found" ->
         "No user found with this email."
    [] name = "login" /\ code = "auth/too-many-requests" ->
         "Too many failed login attempts. Account temporarily locked."
    [] name = "signUp" /\ code = "auth/weak-password" ->
         "The password is too weak. Please choose a stronger password."
    [] name = "sendPasswordReset" /\ code = "auth/user-not-found" ->
         "No user found with this email address."
    [] name = "changePassword" /\ code = "auth/weak-password" ->
         "The new password is too weak. Please choose a stronger password."
    [] name = "resendVerificationEmail" /\ code = "auth/too-many-requests" ->
         "Too many requests. Please wait before trying again."
    [] OTHER -> ""

\* the text after error.message || in the default case
Fallback(name) ==
  CASE name = "login" -> "An unknown authentication error occurred."
    [] name = "signUp" -> "An unknown registration error occurred."
    [] name = "sendPasswordReset" ->
         "An unknown error occurred while sending reset email."
    [] name = "changePassword" ->
         "An unknown error occurred while changing password."
    [] OTHER -> "An unknown error occurred."

\* errorMessage after the switch
errorMessage(name, e) ==
  IF TableMessage(name, e.code) # "" THEN TableMessage(name, e.code)
  ELSE Or(e.message, Fallback(name))

\* logout and updateProfile have no switch: they store error.message and
\* throw a fixed code and message
FixedFailure(name) == name \in { "logout", "updateProfile" }

\* state.error.value = ... in catch
Stored(name, e) == IF FixedFailure(name) THEN e.message ELSE errorMessage(name, e)

\* throw { code, message, originalError: error }
Thrown(name, e) ==
  CASE name = "logout" ->
         [code |-> "auth/logout-failed", message |-> "Logout failed", originalError |-> e]
    [] name = "updateProfile" ->
         [code |-> "auth/profile-update-failed",
          message |-> "Profile update failed", originalError |-> e]
    [] OTHER -> [code |-> e.code, message |-> errorMessage(name, e), originalError |-> e]

\* throw new Error('No authenticated user ...') before the first await
NoAuthUserError(name) ==
  [code |-> "",
   message |-> CASE name = "updateProfile" -> "No authenticated user to update profile."
                 [] name = "changePassword" ->
                      "No authenticated user or email not available for reauthentication."
                 [] OTHER -> "No authenticated user to send verification email."]

\* if (!auth.currentUser) throw ...
NeedsAuthUser(name) ==
  name \in { "updateProfile", "changePassword", "resendVerificationEmail" }

NoCause == [code |-> "", message |-> ""]

NoOutcome ==
  [name |-> "none", ok |-> TRUE, stored |-> "null", thrown |-> "", code |-> "",
   cause |-> NoCause, fetchFailed |-> FALSE, user |-> Null, before |-> Null]

\* the flow returned {success: true, ...}
Succeeded(name, stored, fetchFailed, user) ==
  [NoOutcome EXCEPT !.name = name, !.stored = stored,
                    !.fetchFailed = fetchFailed, !.user = user]

\* the flow threw: what catch stored and what it threw
Failed(name, e, fetchFailed, user) ==
  [name |-> name, ok |-> FALSE, stored |-> Stored(name, e),
   thrown |-> Thrown(name, e).message, code |-> Thrown(name, e).code,
   cause |-> e, fetchFailed |-> fetchFailed, user |-> user, before |-> user]

IdleFlows ==
  /\ flows = << >>
  /\ outcome = NoOutcome
  /\ entered = 0

\* nothing of the auth block is in flight: no flow, no fetchUser call, no
\* notification of a listener
Alone ==
  /\ flows = << >>
  /\ \A c \in DOMAIN calls : calls[c].status = "resolved"
  /\ \A l \in DOMAIN listeners :
       listeners[l].pending = << >> /\ listeners[l].inflight = << >>

\* a flow up to its first await: loading is set and error cleared, and a flow
\* that needs auth.currentUser throws without it, which catch and finally
\* handle before the call returns
EnterFlow(name) ==
  /\ entered < MaxFlows
  /\ entered' = entered + 1
  /\ IF NeedsAuthUser(name) /\ authUser = NoUser
     THEN /\ errorField' = Stored(name, NoAuthUserError(name))
          /\ loading' = FALSE
          /\ outcome' = Failed(name, NoAuthUserError(name), FALSE, currentUser)
          /\ flows' = flows
     ELSE /\ errorField' = "null"
          /\ loading' = TRUE
          /\ outcome' = outcome
          /\ flows' = Append(flows, [name |-> name, step |-> 1, uid |-> authUser,
                                     before |-> currentUser])
  /\ UNCHANGED << laterVars, driverVars, sessionVars, twiceVars, namingVars, wrapperVars,
                  utilVars >>

\* the provider tells every listener who is signed in now
Notify(u) ==
  [ l \in DOMAIN listeners |-> [listeners[l] EXCEPT !.pending = Append(@, u)] ]

\* the await a flow is suspended at
AwaitOf(f) == Awaits(f.name)[f.step]

\* a finally that clears loading only when no other flow is in flight
AwaitFails_Guarded(k, e) ==
  LET f == flows[k]
  IN /\ flows' = RemoveAt(flows, k)
     /\ loading' = (Len(flows) > 1)
     /\ IF f.name = "login" /\ AwaitOf(f) = "getProfile"
        THEN /\ currentUser' = UserValue(f.uid, FALSE)
             /\ epoch' = epoch + 1
             /\ errorField' = errorField
             /\ outcome' = Succeeded(f.name, errorField, TRUE, currentUser')
        ELSE /\ currentUser' = currentUser
             /\ epoch' = epoch
             /\ errorField' = Stored(f.name, e)
             /\ outcome' = [Failed(f.name, e, AwaitOf(f) = "getProfile", currentUser)
                              EXCEPT !.before = f.before]
     /\ UNCHANGED << entered, authInitialized, authUser, listeners, calls, changes >>
     /\ UNCHANGED << laterVars, driverVars, twiceVars, namingVars, wrapperVars, utilVars >>

\* the awaited call of flow k rejects with e: login swallows a failed profile
\* fetch and ends with the provider's record, every other rejection reaches
\* the flow's catch and finally
AwaitFails(k, e) ==
  LET f == flows[k]
  IN /\ flows' = RemoveAt(flows, k)
     /\ loading' = FALSE
     /\ IF f.name = "login" /\ AwaitOf(f) = "getProfile"
        THEN /\ currentUser' = UserValue(f.uid, FALSE)
             /\ epoch' = epoch + 1
             /\ errorField' = errorField
             /\ outcome' = Succeeded(f.name, errorField, TRUE, currentUser')
        ELSE /\ currentUser' = currentUser
             /\ epoch' = epoch
             /\ errorField' = Stored(f.name, e)
             /\ outcome' = [Failed(f.name, e, AwaitOf(f) = "getProfile", currentUser)
                              EXCEPT !.before = f.before]
     /\ UNCHANGED << entered, authInitialized, authUser, listeners, calls, changes >>
     /\ UNCHANGED << laterVars, driverVars, twiceVars, namingVars, wrapperVars, utilVars >>

\* the display name updateProfile is called with: another one than the
\* provider's record holds
Renamed(d) == IF d = "d0" THEN "d1" ELSE "d0"

\* the awaited call of flow k resolves: signIn and createUser sign u in and
\* signOut signs out; found tells whether the profile document exists.
\* updateProfile(auth.currentUser, profileData) renames the provider's record,
\* and updateProfile then spreads the old value and the new name into a new
\* value, whatever the old value was
AwaitSucceeds(k, u, found) ==
  LET f == flows[k]
      a == AwaitOf(f)
      signsIn == a \in { "signIn", "createUser" }
      uid == IF signsIn THEN u ELSE f.uid
      provider == IF signsIn THEN u ELSE IF a = "signOut" THEN NoUser ELSE authUser
      last == f.step = Len(Awaits(f.name))
      ends == last \/ (f.name = "updateProfile" /\ a = "updateAuthProfile"
                         /\ currentUser.uid = NoUser)
      assigns == \/ last /\ f.name \in { "login", "signUp", "logout" }
                 \/ f.name = "updateProfile" /\ a = "updateAuthProfile"
                 \/ f.name = "updateProfile" /\ a = "getProfile" /\ found
      value == CASE f.name = "login" -> UserValue(uid, found)
                 [] f.name = "signUp" -> UserValue(uid, TRUE)
                 [] f.name = "logout" -> Null
                 [] f.name = "updateProfile" /\ a = "getProfile" ->
                      UserValue(currentUser.uid, TRUE)
                 [] f.name = "updateProfile" /\ a = "updateAuthProfile" ->
                      [currentUser EXCEPT !.displayName = Renamed(displayName)]
                 [] OTHER -> currentUser
  IN /\ authUser' = provider
     /\ displayName' = CASE f.name = "updateProfile" /\ a = "updateAuthProfile" ->
                             Renamed(displayName)
                         [] f.name = "signUp" /\ a = "updateAuthProfile" -> "d0"
                         [] OTHER -> displayName
     /\ listeners' = IF provider # authUser THEN Notify(provider) ELSE listeners
     /\ currentUser' = IF assigns THEN value ELSE currentUser
     /\ epoch' = IF assigns THEN epoch + 1 ELSE epoch
     /\ errorField' = errorField
     /\ IF ends
        THEN /\ flows' = RemoveAt(flows, k)
             /\ loading' = FALSE
             /\ outcome' = Succeeded(f.name, errorField, FALSE, currentUser')
        ELSE /\ flows' = [flows EXCEPT ![k].step = @ + 1, ![k].uid = uid]
             /\ loading' = loading
             /\ outcome' = outcome
     /\ UNCHANGED << entered, authInitialized, calls, changes >>
     /\ UNCHANGED << crudVars, feedVars, httpVars, driverVars, twiceVars,
                     namingVars, wrapperVars, utilVars >>

NextFlows ==
  \/ \E name \in FlowNames : Alone /\ EnterFlow(name)
  \/ \E k \in DOMAIN flows : \E e \in ErrorValues : AwaitFails(k, e)
  \/ \E k \in DOMAIN flows : \E u \in Uids : \E found \in BOOLEAN :
       AwaitSucceeds(k, u, found)
  \/ Alone /\ FetchUser
  \/ \E l \in DOMAIN listeners : CallbackStart(l)
  \/ \E l \in DOMAIN listeners :
       \E k \in DOMAIN listeners[l].inflight : CallbackFinish(l, k)

\* ------------------------------------------------- a collection's pages

\* state[collectionName].value as generateStateFile initialises it, with
\* items and lastVisible as positions in the collection's order (0 for no
\* snapshot) and the number of getDocs queries sent
NoPage ==
  [items |-> << >>, lastVisible |-> 0, hasMore |-> TRUE, pageSize |-> 10,
   total |-> 0, queries |-> 0]

IdleCrud ==
  /\ docs = { }
  /\ page = NoPage

\* ---------------------------------------------------- the activity feed

\* let unsubscribeActivity = null; no onSnapshot subscription exists
NoFeed ==
  [unsubscribeActivity |-> 0, active |-> { }, made |-> 0, called |-> << >>]

IdleFeed == feed = NoFeed

MaxFeedCalls == 3

\* options.limit as the application passes it: left out, a number as in the
\* documentation's example, or something callable that returns a constraint
LimitOptions == { "absent", "number", "function" }

\* const { limit = 50, ... } = options; ... limit(limit): inside the try
\* block limit is the destructured option, not the import from
\* firebase/firestore, and calling a number throws a TypeError
LimitThrows(option) == option # "function"

\* a cleanup that drops the handle without calling it
Cleanup_Forget(fd) == [fd EXCEPT !.unsubscribeActivity = 0]

\* if (unsubscribeActivity) { unsubscribeActivity(); unsubscribeActivity = null }
Cleanup(fd) ==
  IF fd.unsubscribeActivity # 0
  THEN [fd EXCEPT !.active = @ \ { fd.unsubscribeActivity },
                  !.unsubscribeActivity = 0]
  ELSE fd

\* initRecentActivityListener(store, options): cleans up, builds the query
\* and subscribes; whatever throws on the way is caught and reported in
\* store.error
InitRecentActivityListener(option) ==
  /\ Len(feed.called) < MaxFeedCalls
  /\ LET cleaned == [Cleanup(feed) EXCEPT
                       !.called = Append(@, [name |-> "init", limit |-> option])]
         handle == feed.made + 1
     IN \/ /\ ~LimitThrows(option)
           /\ feed' = [cleaned EXCEPT !.unsubscribeActivity = handle,
                                      !.active = @ \cup { handle },
                                      !.made = handle]
           /\ errorField' = errorField
        \/ /\ feed' = cleaned
           /\ errorField' = "Activity listener initialization error"
  /\ UNCHANGED << crudVars, nameVars, httpVars, loading, driverVars, sessionVars,
                  twiceVars, namingVars, wrapperVars, utilVars, flowVars >>

\* cleanupActivityListener()
CleanupActivityListener ==
  /\ Len(feed.called) < MaxFeedCalls
  /\ feed' = [Cleanup(feed) EXCEPT
                !.called = Append(@, [name |-> "cleanup", limit |-> "absent"])]
  /\ UNCHANGED << crudVars, nameVars, httpVars, flagVars, driverVars, sessionVars,
                  twiceVars, namingVars, wrapperVars, utilVars, flowVars >>

NextFeed ==
  \/ \E option \in LimitOptions : InitRecentActivityListener(option)
  \/ CleanupActivityListener

\* ------------------------------------------------------ withAuthHandler

\* no request received yet; status 0 stands for no response sent
NoRequest ==
  [stage |-> "idle", method |-> "", methods |-> << >>, authorization |-> << >>,
   token |-> << >>, decoded |-> "", handled |-> FALSE, status |-> 0,
   served |-> 0]

IdleHttp == http = NoRequest

MaxRequests == 2

\* req.method
Methods == { "OPTIONS", "GET", "POST", "DELETE" }

\* the methods argument of withAuthHandler; the first is its default
MethodLists == { << "POST" >>, << "GET", "POST" >>, << "OPTIONS", "POST" >> }

\* req.headers.authorization as a sequence of pieces, "Bearer " being one
\* piece; << >> stands for a header that is missing or empty
Headers ==
  { << >>,
    << "Basic ", "t1" >>,
    << "bearer ", "t1" >>,
    << "Bearer " >>,
    << "Bearer ", "t1" >>,
    << "t1", "Bearer ", "t2" >>,
    << "Bearer ", "Bearer ", "t1" >>,
    << "Bearer ", "t1", "Bearer ", "t2" >> }

\* authHeader.split("Bearer "): the pieces between the occurrences
RECURSIVE SplitBearer(_, _)
SplitBearer(h, cur) ==
  IF h = << >> THEN << cur >>
  ELSE IF Head(h) = "Bearer "
       THEN << cur >> \o SplitBearer(Tail(h), << >>)
       ELSE SplitBearer(Tail(h), Append(cur, Head(h)))

\* a token taken from any header
extractToken_Whole(authHeader) == authHeader

\* extractToken: null and the empty string are both << >>, and both fail
\* the test !idToken
extractToken(authHeader) ==
  IF authHeader = << >> \/ Head(authHeader) # "Bearer " THEN << >>
  ELSE SplitBearer(authHeader, << >>)[2]

\* methods.includes(req.method)
Includes(methods, method) == \E i \in DOMAIN methods : methods[i] = method

\* a request arrives at the function withAuthHandler(handler, methods)
\* returned, and is served up to await verifyFirebaseToken(idToken)
Receive(method, methods, authorization) ==
  /\ http.stage \in { "idle", "done" }
  /\ http.served < MaxRequests
  /\ LET idToken == extractToken(authorization)
         req == [NoRequest EXCEPT !.method = method, !.methods = methods,
                                  !.authorization = authorization,
                                  !.served = http.served + 1]
     IN http' =
          IF method = "OPTIONS"
          THEN [req EXCEPT !.stage = "done", !.status = 204]
          ELSE IF ~Includes(methods, method)
          THEN [req EXCEPT !.stage = "done", !.status = 405]
          ELSE IF idToken = << >>
          THEN [req EXCEPT !.stage = "done", !.status = 401]
          ELSE [req EXCEPT !.stage = "verifying", !.token = idToken]
  /\ UNCHANGED << crudVars, nameVars, feedVars, flagVars, driverVars, sessionVars,
                  twiceVars, namingVars, wrapperVars, utilVars, flowVars >>

\* what admin.auth().verifyIdToken(token) settles with
Verdicts == { "uid", "no uid", "rejected" }

\* await verifyFirebaseToken(idToken) settles: a decoded token with a uid lets
\* the handler start, one without a uid is answered 403, a rejection reaches
\* catch and is answered 500
Verified(verdict) ==
  /\ http.stage = "verifying"
  /\ http' =
       CASE verdict = "uid" ->
              [http EXCEPT !.decoded = verdict, !.stage = "handling",
                           !.handled = TRUE]
         [] verdict = "no uid" ->
              [http EXCEPT !.decoded = verdict, !.stage = "done", !.status = 403]
         [] OTHER ->
              [http EXCEPT !.decoded = verdict, !.stage = "done", !.status = 500]
  /\ UNCHANGED << crudVars, nameVars, feedVars, flagVars, driverVars, sessionVars,
                  twiceVars, namingVars, wrapperVars, utilVars, flowVars >>

\* how await handler(req, res, decoded) ends: the handler answered, or threw
Endings == { "answered", "EAUTH", "TypeError", "Error" }

\* the status catch answers an error with
CatchStatus(ending) ==
  CASE ending = "EAUTH" -> 502
    [] ending = "TypeError" -> 400
    [] OTHER -> 500

\* await handler(req, res, decoded) settles
Handled(ending) ==
  /\ http.stage = "handling"
  /\ http' = [http EXCEPT
                !.stage = "done",
                !.status = IF ending = "answered" THEN 200 ELSE CatchStatus(ending)]
  /\ UNCHANGED << crudVars, nameVars, feedVars, flagVars, driverVars, sessionVars,
                  twiceVars, namingVars, wrapperVars, utilVars, flowVars >>

NextHttp ==
  \/ \E method \in Methods : \E methods \in MethodLists :
       \E authorization \in Headers : Receive(method, methods, authorization)
  \/ \E verdict \in Verdicts : Verified(verdict)
  \/ \E ending \in Endings : Handled(ending)

IdleLater ==
  /\ IdleCrud
  /\ displayName = "d0"
  /\ IdleFeed
  /\ IdleHttp

\* ------------------------------------- the factory's collection actions

MaxDocs == 3

DocIds == 1 .. MaxDocs

\* options.pageSize of fetchInitialPage; 0 stands for an option not given
PageSizes == { 0, 1, 2 }

\* a store generated for a collection that is or is not an auth collection,
\* from any roles answer and any logging answer, over a collection that holds
\* some documents
InitCrud ==
  /\ gen \in [logging : BOOLEAN, hasRoles : BOOLEAN, isAuth : BOOLEAN]
  /\ storeUser \in StoreUsers
  /\ userDoc = UserDoc(FALSE, { })
  /\ op = NoOp
  /\ finished = << >>
  /\ activity = << >>
  /\ docs \in { 1 .. n : n \in 0 .. MaxDocs }
  /\ page = NoPage

\* the documents of the collection in the order of the query, as a sequence
RECURSIVE Ordered(_)
Ordered(ids) ==
  IF ids = { } THEN << >>
  ELSE LET least == CHOOSE i \in ids : \A j \in ids : i <= j
       IN << least >> \o Ordered(ids \ { least })

\* limit(n) applied to the documents a query matches
Limit(sq, n) == IF Len(sq) <= n THEN sq ELSE SubSeq(sq, 1, n)

\* snapshot.docs[snapshot.docs.length - 1] || null
LastOf(sq) == IF sq = << >> THEN 0 ELSE sq[Len(sq)]

\* fetchNextPage without its first line
NothingMore_Never(p) == FALSE

\* if (!state[collectionName].value.lastVisible ||
\*     !state[collectionName].value.hasMore) return;
NothingMore(p) == p.lastVisible = 0 \/ ~p.hasMore

\* fetchInitialPage(options) up to await getDocs(q)
BeginInitialPage(size) ==
  /\ op = NoOp
  /\ Len(finished) < MaxOps
  /\ loading' = TRUE
  /\ op' = [NoOp EXCEPT
              !.name = "fetchInitialPage",
              !.at = "getDocs",
              !.arg = { IF size # 0 THEN size ELSE page.pageSize }]
  /\ page' = [page EXCEPT !.queries = @ + 1]
  /\ UNCHANGED << gen, storeUser, userDoc, finished, activity, errorField, docs >>
  /\ UNCHANGED << nameVars, feedVars, httpVars, driverVars, sessionVars,
                  twiceVars, namingVars, wrapperVars, flowVars >>

\* fetchNextPage(): returns at once when there is nothing more, and otherwise
\* runs up to await getDocs(q)
FetchNextPage ==
  /\ Len(finished) < MaxOps
  /\ IF NothingMore(page)
     THEN /\ finished' = Append(finished,
                                Settled("fetchNextPage", TRUE, << >>, FALSE))
          /\ UNCHANGED << op, page, loading >>
     ELSE /\ op = NoOp
          /\ loading' = TRUE
          /\ op' = [NoOp EXCEPT !.name = "fetchNextPage", !.at = "getDocs"]
          /\ page' = [page EXCEPT !.queries = @ + 1]
          /\ finished' = finished
  /\ UNCHANGED << gen, storeUser, userDoc, activity, errorField, docs >>
  /\ UNCHANGED << nameVars, feedVars, httpVars, driverVars, sessionVars,
                  twiceVars, namingVars, wrapperVars, flowVars >>

\* await getDocs(q) settles: the page replaces the items (fetchInitialPage,
\* which goes on to count) or is appended to them (fetchNextPage)
SettleGetDocs ==
  /\ op.at = "getDocs"
  /\ \/ /\ op.name = "fetchInitialPage"
        /\ LET pageSize == CHOOSE n \in op.arg : TRUE
               snapshot == Limit(Ordered(docs), pageSize)
           IN page' = [page EXCEPT
                         !.items = snapshot,
                         !.lastVisible = LastOf(snapshot),
                         !.hasMore = Len(snapshot) = pageSize,
                         !.pageSize = pageSize]
        /\ op' = [op EXCEPT !.at = "getCountFromServer",
                            !.events = Append(@, "getDocs")]
        /\ UNCHANGED << finished, loading, errorField >>
     \/ /\ op.name = "fetchNextPage"
        /\ LET after == { i \in docs : i > page.lastVisible }
               snapshot == Limit(Ordered(after), page.pageSize)
           IN page' = [page EXCEPT
                         !.items = @ \o snapshot,
                         !.lastVisible = LastOf(snapshot),
                         !.hasMore = Len(snapshot) = page.pageSize]
        /\ FulfilOp(Append(op.events, "getDocs"), FALSE)
        /\ errorField' = errorField
     \/ /\ RejectOp("getDocs failed", "getDocs failed")
        /\ page' = page
  /\ UNCHANGED << gen, storeUser, userDoc, activity, docs >>
  /\ UNCHANGED << nameVars, feedVars, httpVars, driverVars, sessionVars,
                  twiceVars, namingVars, wrapperVars, flowVars >>

\* await getCountFromServer(countQuery) settles
SettleCount ==
  /\ op.at = "getCountFromServer"
  /\ \/ /\ page' = [page EXCEPT !.total = Cardinality(docs)]
        /\ FulfilOp(Append(op.events, "getCountFromServer"), FALSE)
        /\ errorField' = errorField
     \/ /\ RejectOp("getCountFromServer failed", "getCountFromServer failed")
        /\ page' = page
  /\ UNCHANGED << gen, storeUser, userDoc, activity, docs >>
  /\ UNCHANGED << nameVars, feedVars, httpVars, driverVars, sessionVars,
                  twiceVars, namingVars, wrapperVars, flowVars >>

\* data.uid of the document given to add; 0 stands for data without a uid
DataUids == { 0 } \cup DocIds

\* add(data) up to its first await. For an auth collection the document
\* reference is doc(db, collectionName, data.uid), which throws without a uid
BeginAdd(uid) ==
  /\ op = NoOp
  /\ Len(finished) < MaxOps
  /\ IF gen.isAuth /\ uid = 0
     THEN /\ errorField' = "invalid document reference"
          /\ loading' = FALSE
          /\ finished' = Append(finished,
                                Settled("add", FALSE, << "doc failed" >>, FALSE))
          /\ op' = op
     ELSE /\ loading' = TRUE
          /\ op' = [NoOp EXCEPT
                      !.name = "add",
                      !.at = IF gen.isAuth THEN "setDoc" ELSE "addDoc(data)",
                      !.arg = IF gen.isAuth THEN { uid } ELSE { },
                      !.actor = IF ShouldLog THEN getActorContext(storeUser)
                                ELSE NoActor,
                      !.by = storeUser]
          /\ UNCHANGED << finished, errorField >>
  /\ UNCHANGED << gen, storeUser, userDoc, activity, docs, page >>
  /\ UNCHANGED << nameVars, feedVars, httpVars, driverVars, sessionVars,
                  twiceVars, namingVars, wrapperVars, flowVars >>

\* the id of the document the write of add creates: data.uid under setDoc, a
\* fresh id under addDoc
WrittenId ==
  IF op.at = "setDoc" THEN CHOOSE i \in op.arg : TRUE
  ELSE IF docs = DocIds THEN 0
  ELSE CHOOSE i \in DocIds \ docs : \A j \in DocIds \ docs : i <= j

\* what the rest of add throws once the write has succeeded: docRef is
\* declared nowhere, so the argument list of logActivity throws; setDoc
\* resolves to undefined, so d.value.id throws; "" when add returns d.value.id
AfterWrite ==
  IF ShouldLog THEN "docRef is not defined"
  ELSE IF op.at = "setDoc"
       THEN "Cannot read properties of undefined (reading 'id')"
       ELSE ""

\* await setDoc(...) / await addDoc(...) of add settles, and add runs to its
\* end
SettleWrite ==
  /\ op.name = "add"
  /\ op.at \in { "setDoc", "addDoc(data)" }
  /\ \/ /\ WrittenId # 0
        /\ docs' = docs \cup { WrittenId }
        /\ IF AfterWrite = ""
           THEN /\ FulfilOp(Append(op.events, "written"), FALSE)
                /\ errorField' = errorField
           ELSE /\ errorField' = AfterWrite
                /\ loading' = FALSE
                /\ finished' = Append(finished,
                                      Settled("add", FALSE,
                                              op.events \o << "written", "throw" >>,
                                              FALSE))
                /\ op' = NoOp
     \/ /\ RejectOp("write failed", "write failed")
        /\ docs' = docs
  /\ UNCHANGED << gen, storeUser, userDoc, activity, page >>
  /\ UNCHANGED << nameVars, feedVars, httpVars, driverVars, sessionVars,
                  twiceVars, namingVars, wrapperVars, flowVars >>

\* ${adminCheckInRemove}: generated only when roles.length > 0, and then
\* this._checkRole('admin') runs for an auth collection; the message thrown,
\* or "" when remove goes on
AdminCheckInRemove ==
  IF gen.hasRoles /\ gen.isAuth THEN checkRole(storeUser, "admin") ELSE ""

\* remove(id) up to await deleteDoc(...)
BeginRemove(id) ==
  /\ op = NoOp
  /\ Len(finished) < MaxOps
  /\ IF AdminCheckInRemove # ""
     THEN /\ errorField' = AdminCheckInRemove
          /\ loading' = FALSE
          /\ finished' = Append(finished,
                                Settled("remove", FALSE, << "checkRole" >>, FALSE))
          /\ op' = op
     ELSE /\ loading' = TRUE
          /\ op' = [NoOp EXCEPT
                      !.name = "remove",
                      !.at = "deleteDoc",
                      !.arg = { id },
                      !.actor = IF ShouldLog THEN getActorContext(storeUser)
                                ELSE NoActor,
                      !.by = storeUser,
                      !.events = IF gen.hasRoles /\ gen.isAuth
                                 THEN << "checkRole" >> ELSE << >>]
          /\ UNCHANGED << finished, errorField >>
  /\ UNCHANGED << gen, storeUser, userDoc, activity, docs, page >>
  /\ UNCHANGED << nameVars, feedVars, httpVars, driverVars, sessionVars,
                  twiceVars, namingVars, wrapperVars, flowVars >>

\* await deleteDoc(...) settles; with logging remove goes on to logActivity,
\* which calls addDoc
SettleDeleteDoc ==
  /\ op.at = "deleteDoc"
  /\ \/ /\ docs' = docs \ op.arg
        /\ IF ShouldLog
           THEN /\ activity' = Append(activity,
                                      Entry("DELETED", op.actor, op.by, "remove"))
                /\ op' = [op EXCEPT !.at = "addDoc",
                                    !.events = @ \o << "deleteDoc", "addDoc" >>]
                /\ UNCHANGED << finished, loading, errorField >>
           ELSE /\ FulfilOp(Append(op.events, "deleteDoc"), FALSE)
                /\ UNCHANGED << activity, errorField >>
     \/ /\ RejectOp("deleteDoc failed", "deleteDoc failed")
        /\ UNCHANGED << docs, activity >>
  /\ UNCHANGED << gen, storeUser, userDoc, page >>
  /\ UNCHANGED << nameVars, feedVars, httpVars, driverVars, sessionVars,
                  twiceVars, namingVars, wrapperVars, flowVars >>

NextCrud ==
  \/ \E size \in PageSizes : BeginInitialPage(size)
  \/ FetchNextPage
  \/ SettleGetDocs
  \/ SettleCount
  \/ \E uid \in DataUids : BeginAdd(uid)
  \/ SettleWrite
  \/ \E id \in DocIds : BeginRemove(id)
  \/ SettleDeleteDoc
  \/ SettleAddDoc /\ UNCHANGED crudVars

\* the members of the object useFirestoreCollectionActions returns for a
\* collection: ${roleCheck} and ${authRoleActions} are spliced in only for
\* some answers
FactoryKeys(g) ==
  { "fetchInitialPage", "fetchNextPage", "get", "getWhere", "applyFilters",
    "changeSorting", "add", "update", "search", "clearSearch", "remove" }
  \cup (IF g.hasRoles THEN { "_checkRole" } ELSE { })
  \cup (IF g.hasRoles /\ g.isAuth THEN { "assignRoles", "revokeRoles" } ELSE { })

\* a store generated from any answers, no wrapper called yet
InitForward ==
  /\ gen \in [logging : BOOLEAN, hasRoles : BOOLEAN, isAuth : BOOLEAN]
  /\ storeUser = NoStoreUser
  /\ userDoc = UserDoc(FALSE, { })
  /\ op = NoOp
  /\ finished = << >>
  /\ activity = << >>

\* the wrapper of descriptor d is called: getActions().key(...args) calls the
\* member of that name, and throws a TypeError when the object has none
Forward(d) ==
  /\ Len(forwarded) < MaxWrapperCalls
  /\ LET instance == IF NeedsFactory THEN factoryCalls + 1 ELSE actionsInstance
         key == actionDescriptors[d].key
     IN /\ factoryCalls' = IF NeedsFactory THEN factoryCalls + 1 ELSE factoryCalls
        /\ actionsInstance' = instance
        /\ forwarded' = Append(forwarded,
                               [descriptor |-> d,
                                key |-> key,
                                defined |-> key \in FactoryKeys(gen)])
  /\ UNCHANGED << laterVars, driverVars, sessionVars, twiceVars, namingVars, utilVars,
                  flagVars, flowVars >>

NextForward == \E d \in DOMAIN actionDescriptors : Forward(d)

\* ---------------------------------------------------------- specifications

\* the parts of the state a specification does not use stay as they start
IdleGenerated ==
  IdleNaming /\ IdleWrapper /\ IdleUtil /\ IdleFlags /\ IdleFlows /\ IdleLater

\* one run of the generator
InitRun ==
  InitDriver /\ InitSession /\ authUser = NoUser /\ InitTwice /\ IdleGenerated

SpecDriver == InitRun /\ [][NextDriver]_vars

\* a run in which every prompt is answered and every step is taken
FairDriver == SpecDriver /\ WF_vars(NextDriver)

\* one instance of a generated store with an auth collection
InitStore == InitDriver /\ InitSession /\ InitTwice /\ IdleGenerated

SpecSession == InitStore /\ [][NextSession]_vars

\* sign-ins and sign-outs while invocations are followed to their resolution
MaxSignChanges == 1

\* the session with few changes of the sign-in state
NextDelivery ==
  \/ FetchUser
  \/ changes < MaxSignChanges /\ AuthStateChange
  \/ \E l \in DOMAIN listeners : CallbackStart(l)
  \/ \E l \in DOMAIN listeners :
       \E k \in DOMAIN listeners[l].inflight : CallbackFinish(l, k)

\* the provider delivers every notification it owes a registered listener,
\* and the profile fetch a callback awaits settles
FairSession ==
  /\ InitStore /\ [][NextDelivery]_vars
  /\ \A l \in 1 .. MaxCalls :
       /\ WF_vars(l \in DOMAIN listeners /\ CallbackStart(l))
       /\ WF_vars(/\ l \in DOMAIN listeners
                  /\ \E k \in DOMAIN listeners[l].inflight : CallbackFinish(l, k))

\* two invocations in a row with the same answers
SpecTwice == InitRun /\ [][NextTwice]_vars

\* two typed collection names and what a run makes of them
SpecNaming == InitRun /\ [][NextNaming]_vars

\* the wrappers of one instance of a generated per-collection module
SpecWrapper == InitRun /\ [][NextWrapper]_vars

\* the role and update operations of the shared factory on an auth
\* collection, and the activity logger
InitFactory ==
  /\ InitDriver /\ InitSession /\ authUser = NoUser /\ InitTwice
  /\ IdleNaming /\ IdleWrapper /\ IdleFlags /\ IdleFlows /\ IdleLater
  /\ InitUtil

SpecUtil == InitFactory /\ [][NextUtil]_vars

\* the auth block of a generated store, one flow at a time
SpecFlows == InitStore /\ [][NextFlows]_vars

\* the auth block with nothing to keep its flows apart: the application starts
\* a flow while another is in flight
NextOverlap ==
  \/ \E name \in FlowNames : EnterFlow(name)
  \/ \E k \in DOMAIN flows : \E e \in ErrorValues : AwaitFails(k, e)
  \/ \E k \in DOMAIN flows : \E u \in Uids : \E found \in BOOLEAN :
       AwaitSucceeds(k, u, found)

SpecOverlap == InitStore /\ [][NextOverlap]_vars

\* a function wrapped by withAuthHandler serving requests
SpecHttp == InitStore /\ [][NextHttp]_vars

\* the activity feed of a generated store
SpecFeed == InitStore /\ [][NextFeed]_vars

\* the collection actions of the factory, one operation at a time
InitActions ==
  /\ InitDriver /\ InitSession /\ authUser = NoUser /\ InitTwice
  /\ IdleNaming /\ IdleWrapper /\ IdleFlags /\ IdleFlows
  /\ displayName = "d0" /\ IdleFeed /\ IdleHttp
  /\ InitCrud

SpecCrud == InitActions /\ [][NextCrud]_vars

\* the wrappers of a collection module over the factory's object
InitWrappers ==
  /\ InitDriver /\ InitSession /\ authUser = NoUser /\ InitTwice
  /\ IdleNaming /\ IdleWrapper /\ IdleFlags /\ IdleFlows /\ IdleLater
  /\ InitForward

SpecForward == InitWrappers /\ [][NextForward]_vars

\* ------------------------------------------------------------------ claims

IsAuth(c) == \E i \in DOMAIN authCollections : authCollections[i] = c

Occurrences(members, name) ==
  Cardinality({ i \in DOMAIN members : members[i].name = name })

AssignName(c) == <<"a","s","s","i","g","n">> \o capitalize(c) \o <<"R","o","l","e","s">>
RevokeName(c) == <<"r","e","v","o","k","e">> \o capitalize(c) \o <<"R","o","l","e","s">>

ActionFiles == { f \in fs : f.path.file = "actions" }

\* C1: every composed per-collection module has no assign<Suffix>Roles and no
\* revoke<Suffix>Roles member when its collection is not an auth collection,
\* and exactly one of each when it is.
C1_AuthGating ==
  \A f \in ActionFiles :
    LET c == f.path.name
        n == IF IsAuth(c) THEN 1 ELSE 0
    IN /\ Occurrences(f.content.members, AssignName(c)) = n
       /\ Occurrences(f.content.members, RevokeName(c)) = n

\* C2: however fetchUser invocations and auth-state callbacks interleave,
\* onAuthStateChanged is subscribed at most once.
C2_AtMostOneListener == Len(listeners) <= 1

InvalidNameCause == "Invalid Firestore collection name"

\* C4: generateCollectionActionModule, called with a name that does not match
\* ^[A-Za-z][A-Za-z0-9_-]*$, throws an error that names the collection and
\* leaves the directories and the files as they were; no file of that
\* collection exists afterwards.
C4_InvalidNameRejected ==
  [][ (pc = "genActions" /\ ~MatchesStatedPattern(collections[idx])) =>
        /\ pc' = "catch"
        /\ error'.context = "[Action Generator]"
        /\ error'.coll = collections[idx]
        /\ error'.cause = InvalidNameCause
        /\ fs' = fs
        /\ dirs' = dirs
        /\ FileAt(fs', Path(storeName, "actions", collections[idx])) = { } ]_vars

C4_Witness ==
  /\ pc = "catch"
  /\ error.cause = InvalidNameCause
  /\ ~MatchesStatedPattern(error.coll)
  /\ fs # { }

HasInvalidName == \E i \in DOMAIN collections : ~ValidCollectionName(collections[i])

\* C5: a run whose collection list contains a name that fails validation ends
\* with no file written at all.
C5_RejectedBeforeGeneration ==
  (pc = "done" /\ HasInvalidName) => fs = { }

FsFailure == error.cause \in { "Failed to write file", "mkdir" }

HasActionFile(c) == FileAt(fs, Path(storeName, "actions", c)) # { }

\* C6 as stated: in a run with an invalid collection name (and no file-system
\* failure) the module of every valid collection is generated.
C6_NonFatalToBatch ==
  (pc = "done" /\ HasInvalidName /\ ~FsFailure) =>
     \A i \in DOMAIN collections :
        ValidCollectionName(collections[i]) => HasActionFile(collections[i])

FirstInvalid ==
  CHOOSE k \in DOMAIN collections :
    /\ ~ValidCollectionName(collections[k])
    /\ \A i \in 1..(k - 1) : ValidCollectionName(collections[i])

\* C6 amended: an invalid collection name aborts the run at that collection.
\* With no file-system failure, the run ends with the modules of the
\* collections listed before the invalid one generated, and with no module of
\* the invalid collection, no module of a collection first listed after it, no
\* index, no logger and no guide.
C6_AbortsAtInvalidName ==
  (pc = "done" /\ HasInvalidName /\ ~FsFailure) =>
     LET k == FirstInvalid
         before == { collections[i] : i \in 1..(k - 1) }
     IN /\ error.cause = InvalidNameCause
        /\ error.coll = collections[k]
        /\ \A c \in before : HasActionFile(c)
        /\ \A i \in k..Len(collections) :
              collections[i] \notin before => ~HasActionFile(collections[i])
        /\ \A f \in fs : f.path.file \in
              { "state.js", "useFirestoreCollectionActions.js", "actions" }

C6_Witness ==
  /\ pc = "done"
  /\ Len(collections) = 3
  /\ ValidCollectionName(collections[1])
  /\ ~ValidCollectionName(collections[2])
  /\ ValidCollectionName(collections[3])
  /\ collections[3] # collections[1]
  /\ HasActionFile(collections[1])
  /\ ~HasActionFile(collections[3])

IsPrefix(a, b) == Len(a) <= Len(b) /\ a = SubSeq(b, 1, Len(a))

\* the order of §5: state, Firestore util, one module per collection in input
\* order, index, logger (only with logging), guide
ExpectedWrites ==
  << Path(storeName, "state.js", << >>),
     Path(storeName, "useFirestoreCollectionActions.js", << >>) >>
  \o [ i \in 1..Len(collections) |-> Path(storeName, "actions", collections[i]) ]
  \o << Path(storeName, "index.js", << >>) >>
  \o (IF addActivityLogging
      THEN << Path(storeName, "activityLogger.js", << >>) >>
      ELSE << >>)
  \o << Path(storeName, "STORE_GUIDE.md", << >>) >>

DocsFailed ==
  \E i \in DOMAIN console : console[i].text = "Documentation error"

\* C7: the files are written in the order state.js,
\* useFirestoreCollectionActions.js, actions/<c>.js for each collection in
\* input order, index.js, activityLogger.js (only with logging),
\* STORE_GUIDE.md: what has been written so far is always an initial part of
\* that list, and all of it once a run has ended with no failure.
C7_WriteOrder ==
  /\ IsPrefix(writeLog, ExpectedWrites)
  /\ (pc = "done" /\ error = NoError /\ ~DocsFailed) => writeLog = ExpectedWrites

C7_Witness ==
  /\ pc = "done"
  /\ error = NoError
  /\ addActivityLogging
  /\ Len(collections) >= 2
  /\ collections[1] # collections[2]
  /\ writeLog = ExpectedWrites

GenFailed ==
  \/ error.cause \in { "Failed to write file", InvalidNameCause }
  \/ DocsFailed

\* C8: the step at which a composer fails changes no file, and from then on
\* the files stay exactly as they are, nothing more is written and no further
\* composer is called.
C8_NoRollbackNoLaterStep ==
  [][ /\ (~GenFailed /\ GenFailed') => (fs' = fs /\ writeLog' = writeLog)
      /\ GenFailed => (fs' = fs /\ writeLog' = writeLog /\ ran' = ran) ]_vars

C8_Witness ==
  /\ pc = "done"
  /\ error.context = "Error generating index file"
  /\ Len(writeLog) >= 3
  /\ \A i \in DOMAIN writeLog : FileAt(fs, writeLog[i]) # { }

ErrorEntry == [stream |-> "stderr", text |-> "Error", err |-> error]

SuccessEntry == [stream |-> "stdout", text |-> "generated successfully", err |-> NoError]

\* C9: every run ends, with rl.close() called exactly once: after the success
\* message when no error reached the top level, after the error was logged
\* otherwise.
C9_ClosedOnceAndTerminates ==
  /\ <>[](pc = "done" /\ rlClosed = 1)
  /\ [](rlClosed <= 1)
  /\ [](rlClosed = 1 =>
          /\ console # << >>
          /\ console[Len(console)] = (IF error = NoError THEN SuccessEntry
                                                         ELSE ErrorEntry))

C9_Witness ==
  /\ pc = "done"
  /\ rlClosed = 1
  /\ error.cause = "Failed to write file"
  /\ console[Len(console)] = ErrorEntry

EmptyStoreName == Len(prompts) >= 1 /\ storeName = << >>

NoCollections == Len(prompts) >= 2 /\ collections = << >>

\* C10: once the store-name answer is empty, or the collections answer yields
\* no name, the run has thrown the matching error, no directory and no file
\* is ever created, no composer is called and no further prompt is asked; the
\* run ends with that error reported.
C10_InputErrorAborts ==
  (EmptyStoreName \/ NoCollections) =>
     /\ error.cause = (IF EmptyStoreName THEN "Store name is required"
                                          ELSE "At least one collection is required")
     /\ pc \in { "catch", "finally", "done" }
     /\ fs = { }
     /\ dirs = { }
     /\ ran = << >>
     /\ prompts = (IF EmptyStoreName THEN << "storeName" >>
                                     ELSE << "storeName", "collections" >>)
     /\ (pc = "done" => console = << ErrorEntry >>)

C10_Witness ==
  /\ pc = "done"
  /\ NoCollections
  /\ console = << ErrorEntry >>

Asked(question) == \E i \in DOMAIN prompts : prompts[i] = question

LoggerFile == FileAt(fs, Path(storeName, "activityLogger.js", << >>))

IndexFile == FileAt(fs, Path(storeName, "index.js", << >>))

\* the collections answer has been read and none of its names is an auth name
NoAuthRun == Len(prompts) >= 2 /\ Len(authCollections) = 0

\* C11: in a run where no collection is an auth collection the roles prompt
\* and the logging prompt are not asked, addActivityLogging is false, no
\* activityLogger.js is written and index.js has no auth-flow block; in any
\* run activityLogger.js exists only if addActivityLogging is true, and it
\* exists once a run with addActivityLogging true has got past its step
C11_LoggingOnlyWithAuth ==
  /\ NoAuthRun =>
       /\ ~Asked("roles")
       /\ ~Asked("logging")
       /\ ~addActivityLogging
       /\ LoggerFile = { }
       /\ \A f \in IndexFile : ~f.content.auth
  /\ LoggerFile # { } => addActivityLogging
  /\ (pc \in { "genDocs", "success", "finally", "done" } /\ error = NoError
        /\ addActivityLogging) => LoggerFile # { }

C11_Witness ==
  /\ pc = "done"
  /\ error = NoError
  /\ NoAuthRun
  /\ IndexFile # { }

\* a flow of the auth block has been entered and has not settled
InFlight ==
  \/ flows # << >>
  \/ \E c \in DOMAIN calls : calls[c].status = "pending"

\* C12: each of the eight auth flows, run alone, has loading true from its
\* entry until it completes and leaves loading false when it has completed
C12_LoadingBracket ==
  /\ InFlight => loading = TRUE
  /\ ~InFlight => loading = FALSE

\* C13: when an auth flow fails, the message in the error field is the
\* message of the failure it throws: the table's message for a code the table
\* knows, the underlying error's message otherwise
C13_StoredIsThrown ==
  (outcome.name # "none" /\ ~outcome.ok) =>
    /\ outcome.stored = outcome.thrown
    /\ outcome.thrown =
         IF TableMessage(outcome.name, outcome.cause.code) # ""
         THEN TableMessage(outcome.name, outcome.cause.code)
         ELSE outcome.cause.message

\* C14: a flow whose fetch of the profile document failed still completes
\* successfully, with currentUser set from the provider's record
C14_ProfileFetchNotFatal ==
  outcome.fetchFailed =>
    /\ outcome.ok
    /\ outcome.user.uid # NoUser

Count(seq, x) == Cardinality({ i \in DOMAIN seq : seq[i] = x })

\* a call of assignRoles or revokeRoles that was fulfilled
RoleChange(f) == f.name \in { "assignRoles", "revokeRoles" } /\ f.ok

\* exactly one addDoc call on recentActivity, made after the updateDoc call
AuditedAfterUpdate(f) ==
  /\ Count(f.events, "addDoc") = 1
  /\ \E i \in DOMAIN f.events : \E j \in DOMAIN f.events :
       i < j /\ f.events[i] = "updateDoc" /\ f.events[j] = "addDoc"

\* C15 as stated: with addActivityLogging every fulfilled assignRoles and
\* revokeRoles call makes exactly one audit write, after the role update;
\* without it neither makes any
C15_AuditAfterRoleChange ==
  \A i \in DOMAIN finished :
    RoleChange(finished[i]) =>
      IF gen.logging THEN AuditedAfterUpdate(finished[i])
      ELSE Count(finished[i].events, "addDoc") = 0

\* C15: with addActivityLogging every fulfilled assignRoles call, and every
\* fulfilled revokeRoles call that found the user's document, makes exactly
\* one audit write, after the role update; a revokeRoles call that found no
\* document is fulfilled with no update and no audit write; without
\* addActivityLogging neither operation makes an audit write
C15_AuditAfterRoleUpdate ==
  \A i \in DOMAIN finished :
    RoleChange(finished[i]) =>
      /\ IF gen.logging /\ ~finished[i].missing
         THEN AuditedAfterUpdate(finished[i])
         ELSE Count(finished[i].events, "addDoc") = 0
      /\ finished[i].missing =>
           /\ finished[i].name = "revokeRoles"
           /\ Count(finished[i].events, "updateDoc") = 0

C15_Witness ==
  /\ gen.logging
  /\ \E i \in DOMAIN finished :
       /\ RoleChange(finished[i])
       /\ finished[i].name = "revokeRoles"
       /\ AuditedAfterUpdate(finished[i])
  /\ \E i \in DOMAIN activity : activity[i].op = "revokeRoles"

ActorTypes == { "Admin", "User", "System" }

C17_SameTokensSameMembers ==
  (nm.phase = "derived" /\ nm.tokensA = nm.tokensB) =>
    /\ nm.a.suffix = nm.b.suffix
    /\ nm.a.members = nm.b.members
    /\ Len(nm.a.members) = Len(actionDescriptors)

C17_Witness ==
  /\ nm.phase = "derived"
  /\ nm.a.raw = Client \o <<"-">> \o Submissions
  /\ nm.b.raw = <<"C">> \o Tail(Client) \o <<" ">> \o <<"S">> \o Tail(Submissions)
  /\ nm.a.suffix = <<"C">> \o Tail(Client) \o <<"S">> \o Tail(Submissions)
  /\ nm.b.suffix = nm.a.suffix

\* C18: the member names of two collections with different derived names
\* never coincide
C18_MembersNeverCoincide ==
  (nm.phase = "derived" /\ nm.a.name # nm.b.name) =>
    \A i \in DOMAIN nm.a.members : \A j \in DOMAIN nm.b.members :
      nm.a.members[i] # nm.b.members[j]

IsGuide(f) == f.path.file = "STORE_GUIDE.md"

\* both invocations ran to their end without an error
BothRan ==
  /\ run > 1
  /\ pc = "done"
  /\ error = NoError
  /\ first.error = NoError
  /\ first.fs # { }

IsAdmin(user) == user.uid # NoUser /\ user.hasRoles /\ "admin" \in user.roles

RoleOpNames == { "assignRoles", "revokeRoles" }

\* a step in which assignRoles or revokeRoles is called
RoleOpCalled ==
  /\ op = NoOp
  /\ \/ op'.name \in RoleOpNames
     \/ /\ Len(finished') = Len(finished) + 1
        /\ finished'[Len(finished')].name \in RoleOpNames

\* C21: assignRoles and revokeRoles go on to the roles document only when the
\* current user is set and its roles include admin; called by anyone else
\* they make no role update and no audit write, set the error field to the
\* failure's message, fail, and leave loading false; the roles document
\* changes only in a step of a call that passed this check
C21_RoleChangeNeedsAdmin ==
  [][ /\ (RoleOpCalled /\ IsAdmin(storeUser)) =>
           /\ op'.name \in RoleOpNames
           /\ op'.events = << "checkRole" >>
           /\ userDoc' = userDoc
      /\ (RoleOpCalled /\ ~IsAdmin(storeUser)) =>
           /\ op' = NoOp
           /\ userDoc' = userDoc
           /\ activity' = activity
           /\ errorField' = checkRole(storeUser, "admin")
           /\ errorField' # ""
           /\ loading' = FALSE
           /\ ~finished'[Len(finished')].ok
           /\ finished'[Len(finished')].events = << "checkRole" >>
      /\ userDoc' # userDoc =>
           /\ op.name \in RoleOpNames
           /\ op.events[1] = "checkRole"
           /\ ~RoleOpCalled
    ]_vars

C21_Witness ==
  /\ \E i \in DOMAIN finished :
       /\ finished[i].name = "assignRoles"
       /\ ~finished[i].ok
       /\ finished[i].events = << "checkRole" >>
  /\ errorField = "User lacks required role"
  /\ loading = FALSE
  /\ activity = << >>
  /\ gen.logging

\* C22: remove(id) on an auth collection deletes the document only if the
\* current user holds the 'admin' role, whatever was answered at the roles
\* prompt: a step of remove that takes a document out of an auth collection is
\* taken for an administrator.
C22_RemoveNeedsAdmin ==
  [][(op.name = "remove" /\ gen.isAuth /\ docs' # docs)
       => (IsAdmin(op.by) /\ IsAdmin(storeUser))]_vars

\* C23: add(data) returns the id of the new document whenever the document
\* write succeeds, for auth and non-auth collections, with logging on or off:
\* no call of add is rejected after its document was written.
C23_AddReturnsIdOnceWritten ==
  \A i \in DOMAIN finished :
    (/\ finished[i].name = "add"
     /\ \E j \in DOMAIN finished[i].events : finished[i].events[j] = "written")
      => finished[i].ok

\* C26: every wrapper a collection module emits forwards to an operation the
\* factory's object defines for that collection, for auth and non-auth
\* collections and for an empty and a non-empty roles list.
C26_WrappersForwardToDefined ==
  \A i \in DOMAIN forwarded : forwarded[i].defined

\* a call of fetchNextPage: it returns at once, or it starts its query
FetchNextPageCalled ==
  \/ /\ op = NoOp
     /\ op'.name = "fetchNextPage"
  \/ /\ op' = op
     /\ Len(finished') = Len(finished) + 1
     /\ finished'[Len(finished')].name = "fetchNextPage"

\* C29: fetchNextPage issues no query and leaves the collection state, loading
\* and error unchanged when lastVisible is null or hasMore is false.
C29_NextPageNoOp ==
  [][(FetchNextPageCalled /\ (page.lastVisible = 0 \/ ~page.hasMore))
       => /\ page' = page
          /\ loading' = loading
          /\ errorField' = errorField
          /\ docs' = docs
          /\ op' = op
          /\ finished'[Len(finished')] =
               Settled("fetchNextPage", TRUE, << >>, FALSE)]_vars

\* fetchNextPage returned at once after a first page that reached the end of
\* the collection, and a query of fetchInitialPage had been sent before
C29_Witness ==
  /\ Len(finished) = 2
  /\ finished[1].name = "fetchInitialPage"
  /\ finished[1].ok
  /\ finished[2] = Settled("fetchNextPage", TRUE, << >>, FALSE)
  /\ page.lastVisible # 0
  /\ ~page.hasMore
  /\ page.queries = 1
  /\ page.items # << >>

\* C24: nothing protects the shared loading flag: when two flows overlap, the
\* flow that finishes first sets loading to false while the other is still in
\* flight.
C24_FirstFinisherClearsLoading ==
  [][(Len(flows) > 1 /\ Len(flows') < Len(flows))
       => (loading' = FALSE /\ flows' # << >>)]_vars

\* login and sendPasswordReset overlapped, one of them has ended, and loading
\* is false while the other is in flight
C24_Witness ==
  /\ loading = FALSE
  /\ flows # << >>
  /\ entered = 2
  /\ outcome.name \in { "login", "sendPasswordReset" }
  /\ \E k \in DOMAIN flows : flows[k].name \in { "login", "sendPasswordReset" }
                               /\ flows[k].name # outcome.name

\* the flows the claim names
FlowsOfC25 == { "login", "signUp", "logout", "updateProfile", "changePassword" }

\* C25: a flow that fails leaves currentUser exactly as it was before the flow
\* began; stated for a store where no auth-state listener is registered, so
\* that only the flow itself assigns currentUser.
C25_FailedFlowKeepsUser ==
  (/\ ~outcome.ok
   /\ outcome.name \in FlowsOfC25
   /\ listeners = << >>)
    => outcome.user = outcome.before

\* C27: every fetchUser invocation eventually resolves, provided the provider
\* delivers an auth-state callback to each registered listener (and the
\* callback's profile fetch settles); an invocation made when authInitialized
\* is already true resolves at once with the current user, without a listener.
C27_FetchUserResolves ==
  /\ \A c \in 1 .. MaxCalls :
       (c \in DOMAIN calls)
         ~> (c \in DOMAIN calls /\ calls[c].status = "resolved")
  /\ [][(Len(calls') = Len(calls) + 1 /\ authInitialized)
          => /\ calls'[Len(calls')].status = "resolved"
             /\ calls'[Len(calls')].value = currentUser
             /\ listeners' = listeners
             /\ currentUser' = currentUser]_vars

\* a first invocation was resolved by its listener's callback with a signed-in
\* user, and a second one, made afterwards, was resolved at once
C27_Witness ==
  /\ Len(calls) = 2
  /\ Len(listeners) = 1
  /\ calls[1].status = "resolved"
  /\ calls[1].value.uid # NoUser
  /\ calls[1].resolvedAt > calls[1].invokedAt
  /\ calls[2].status = "resolved"
  /\ calls[2].resolvedAt = calls[2].invokedAt
  /\ calls[2].value = currentUser

\* the call just made
LastFeedCall == feed'.called[Len(feed'.called)]

\* C28: across any sequence of initRecentActivityListener and
\* cleanupActivityListener calls at most one activity subscription is active
\* (init unsubscribes the previous one first); after cleanup none is active,
\* and a cleanup with none active changes nothing.
C28_OneActivitySubscription ==
  [][/\ Cardinality(feed'.active) <= 1
     /\ feed'.active \subseteq { feed'.unsubscribeActivity }
     /\ feed.active \cap feed'.active = { }
     /\ LastFeedCall.name = "cleanup"
          => /\ feed'.active = { }
             /\ feed'.unsubscribeActivity = 0
             /\ errorField' = errorField
             /\ feed.active = { } => feed' = [feed EXCEPT !.called = feed'.called]
     /\ (LastFeedCall.name = "init" /\ LimitThrows(LastFeedCall.limit))
          => /\ feed'.active = { }
             /\ errorField' = "Activity listener initialization error"]_vars

\* a second init replaced the subscription of the first, and a cleanup then
\* ended it
C28_Witness ==
  /\ Len(feed.called) = 3
  /\ feed.called[1].name = "init"
  /\ feed.called[2].name = "init"
  /\ feed.called[3].name = "cleanup"
  /\ feed.made = 2
  /\ feed.active = { }
  /\ feed.unsubscribeActivity = 0

\* the response a request gets when the handler does not run
RefusedStatus ==
  CASE http.method = "OPTIONS" -> 204
    [] ~Includes(http.methods, http.method) -> 405
    [] http.token = << >> -> 401
    [] http.decoded = "no uid" -> 403
    [] OTHER -> 500

\* C30: withAuthHandler invokes the wrapped handler only for a request whose
\* method is in the allowed list and is not OPTIONS, that carries a Bearer
\* token, and whose token was verified to a decoded uid; every other request
\* gets 204, 405, 401, 403 or an error response without the handler running.
C30_HandlerOnlyWhenAuthorized ==
  /\ http.handled
       => /\ Includes(http.methods, http.method)
          /\ http.method # "OPTIONS"
          /\ http.authorization # << >>
          /\ Head(http.authorization) = "Bearer "
          /\ http.token # << >>
          /\ http.decoded = "uid"
  /\ (http.stage = "done" /\ ~http.handled)
       => /\ http.status = RefusedStatus
          /\ http.status \in { 204, 405, 401, 403, 500 }

\* the second request served carried a Bearer token that was verified to a
\* uid, and the handler ran and answered it
C30_Witness ==
  /\ http.served = 2
  /\ http.stage = "done"
  /\ http.handled
  /\ http.status = 200
  /\ http.method = "POST"
  /\ http.token = << "t1" >>

====
